---------------------------- MODULE Spec2Model ----------------------------
(***************************************************************************)
(* A model of the FileFlows integration for Home Assistant:                *)
(*   - FileFlowsApiClient (api.py): _request, the endpoint methods and     *)
(*     get_comprehensive_data;                                             *)
(*   - FileFlowsDataUpdateCoordinator (__init__.py): one poll per tick;    *)
(*   - the sensors and binary sensors (sensor.py, binary_sensor.py) that   *)
(*     read the published snapshot;                                        *)
(*   - validate_input (config_flow.py) and the connection test of          *)
(*     async_setup_entry (__init__.py);                                    *)
(*   - the services of __init__.py and the switch of a node (switch.py);   *)
(*   - the headers of a request, the sensors of a node                     *)
(*     (sensors_nodes.py) and the probing methods called by themselves;    *)
(*   - async_setup_entry and async_unload_entry (__init__.py) over two     *)
(*     config entries, with the services they register.                    *)
(*                                                                         *)
(* Python values are tagged tuples: <<"null">>, <<"bool", b>>,             *)
(* <<"num", n>>, <<"float", lexeme>>, <<"str", chars>>, <<"arr", seq>>,    *)
(* <<"obj", f>> with f a function from keys (strings) to values.  A        *)
(* response body is a sequence of one-character strings.                   *)
(***************************************************************************)
EXTENDS Integers, Sequences, FiniteSets, TLC

VARIABLES
    \* ---- the client's _request seen as a function of the response
    response,        \* what the transport delivers for the request
    doc,             \* the document the body was serialised from, or NoDoc
    result,          \* what _request returned or raised, or NoResult
    \* ---- the coordinator and one poll
    profile,         \* what the server answers on each path
    update_interval, \* coordinator.update_interval (seconds)
    published,       \* coordinator.data
    last_update_success,  \* coordinator.last_update_success
    pc,              \* position of the poll in get_comprehensive_data
    cand,            \* index of the candidate path of a probing method
    data,            \* the dict get_comprehensive_data is assembling
    got,             \* history: for each endpoint method of this poll, what
                     \* it returned (out) and how its last request ended (last)
    faults,          \* transient failures injected into this poll
    failedPolls,     \* history: consecutive polls whose status request failed
    prev,            \* history: how coordinator.data looked, and failedPolls,
                     \* before the last publication
    requests,        \* history: the paths of the requests of this poll that
                     \* have ended, in order
    \* ---- setup validation
    vkind,           \* which runs: validate_input or async_setup_entry
    vconfig,         \* the user input, or the data of the config entry
    vpc,             \* position in the function
    vclient,         \* host and port of the FileFlowsApiClient it created
    vrequests,       \* history: the requests sent, in order
    vresults,        \* history: how each request ended, in order
    voutcome,        \* how the function ended
    \* ---- the services
    call,            \* the service being handled, or "none"
    cpc,             \* position in the handler
    ncalls,          \* history: the number of service calls made
    events,          \* history: requests sent, commands ended and refreshes
                     \* requested, in order, each with the number of its call
    \* ---- the headers of a request
    api_key,         \* client.api_key
    supplied,        \* the headers argument of the call of _request
    sent,            \* the headers handed to session.request, or NoHeaders
    \* ---- the entities of a node
    node_data,       \* the node descriptors the node coordinator published
    entity,          \* the UID of the node the entities belong to
    clock,           \* the time the properties are evaluated at (seconds)
    settings,        \* the data of the config entry
    shown,           \* what the properties of the entities yielded
    \* ---- a probing method called by itself
    probe,           \* the method and the index of the path it requests next
    asked,           \* history: the paths requested, each with its response
    returned,        \* what the method returned or raised, or NoResult
    \* ---- the config entries and the services
    entry_state,     \* for each config entry: "not_loaded", "loaded" or
                     \* "failed_unload"
    hass_data,       \* hass.data[DOMAIN]: what is stored for each entry id
    platforms,       \* the entries whose platforms are set up
    registered,      \* hass.services: for each registered service, the entry
                     \* whose client and coordinator its handler holds
    latest           \* history: the last setup, unload or service call

vars == <<response, doc, result, profile, update_interval, published,
          last_update_success, pc, cand, data, got, faults, failedPolls, prev,
          requests,
          vkind, vconfig, vpc, vclient, vrequests, vresults, voutcome,
          call, cpc, ncalls, events,
          api_key, supplied, sent,
          node_data, entity, clock, settings, shown,
          probe, asked, returned,
          entry_state, hass_data, platforms, registered, latest>>

requestVars == <<response, doc, result>>
pollVars == <<profile, update_interval, published, last_update_success, pc,
              cand, data, got, faults, failedPolls, prev, requests>>
setupVars == <<vkind, vconfig, vpc, vclient, vrequests, vresults, voutcome>>
serviceVars == <<call, cpc, ncalls, events>>
headerVars == <<api_key, supplied, sent>>
nodeVars == <<node_data, entity, clock, settings, shown>>
probeVars == <<probe, asked, returned>>
entryVars == <<entry_state, hass_data, platforms, registered, latest>>

-----------------------------------------------------------------------------
(* Python values *)

JNull == <<"null">>
JBool(b) == <<"bool", b>>
JNum(n) == <<"num", n>>
JFloat(lexeme) == <<"float", lexeme>>
JStr(chars) == <<"str", chars>>
JArr(items) == <<"arr", items>>
JObj(f) == <<"obj", f>>
EmptyDict == JObj(<<>>)

IsDict(v) == v[1] = "obj"
IsList(v) == v[1] = "arr"
IsStr(v) == v[1] = "str"

RECURSIVE Concat(_)
\* the string a sequence of one-character strings spells
Concat(chars) ==
    IF chars = <<>> THEN "" ELSE Head(chars) \o Concat(Tail(chars))

-----------------------------------------------------------------------------
(* json.loads, as api.py line 96 calls it: the standard decoder.           *)
(* Intermediate results are bound by Only({F(x) : x \in {e}}), which       *)
(* evaluates e once.                                                       *)

Only(S) == CHOOSE x \in S : TRUE

Whitespace == {" ", "\t", "\n", "\r"}
Digits == {"0", "1", "2", "3", "4", "5", "6", "7", "8", "9"}
DigitValue(c) ==
    CASE c = "0" -> 0 [] c = "1" -> 1 [] c = "2" -> 2 [] c = "3" -> 3
      [] c = "4" -> 4 [] c = "5" -> 5 [] c = "6" -> 6 [] c = "7" -> 7
      [] c = "8" -> 8 [] c = "9" -> 9

\* s[i:i+1]: the character at i, or "" past the end
At(s, i) == IF i >= 1 /\ i <= Len(s) THEN s[i] ELSE ""

\* s[i:i+n] = word
StartsWithAt(s, i, word) ==
    /\ i + Len(word) - 1 <= Len(s)
    /\ \A k \in 1..Len(word) : s[i + k - 1] = word[k]

\* the first index from i on whose character is not in chars
RunEnd(s, i, chars) ==
    CHOOSE j \in i..(Len(s) + 1) :
        /\ At(s, j) \notin chars
        /\ \A k \in i..(j - 1) : At(s, k) \in chars

\* WHITESPACE.match(s, i).end()
SkipWs(s, i) == RunEnd(s, i, Whitespace)

\* the index after the run of digits that starts at i
DigitsEnd(s, i) == RunEnd(s, i, Digits)

RECURSIVE IntOf(_, _, _)
\* the number the digits s[i..j] spell
IntOf(s, i, j) ==
    IF j < i THEN 0 ELSE 10 * IntOf(s, i, j - 1) + DigitValue(s[j])

Failed == [ok |-> FALSE, val |-> JNull, end |-> 0]
Parsed(v, e) == [ok |-> TRUE, val |-> v, end |-> e]

\* the number whose integer part is s[i0..intEnd-1] and whose lexeme ends
\* before expEnd
NumberFrom(s, i, i0, intEnd, expEnd) ==
    IF intEnd = i0 THEN Failed
    ELSE IF expEnd = intEnd
    THEN Parsed(JNum(IF i0 > i THEN 0 - IntOf(s, i0, intEnd - 1)
                     ELSE IntOf(s, i0, intEnd - 1)), intEnd)
    ELSE Parsed(JFloat(SubSeq(s, i, expEnd - 1)), expEnd)

\* the end of the exponent part that may start at fracEnd
ExponentEnd(s, fracEnd) ==
    LET e0 == IF At(s, fracEnd + 1) \in {"-", "+"}
              THEN fracEnd + 2 ELSE fracEnd + 1
    IN  IF At(s, fracEnd) \in {"e", "E"} /\ At(s, e0) \in Digits
        THEN DigitsEnd(s, e0) ELSE fracEnd

\* the end of the fraction part that may start at intEnd
FractionEnd(s, intEnd) ==
    IF At(s, intEnd) = "." /\ At(s, intEnd + 1) \in Digits
    THEN DigitsEnd(s, intEnd + 1) ELSE intEnd

\* the end of the integer part that may start at i0
IntegerEnd(s, i0) ==
    IF At(s, i0) = "0" THEN i0 + 1
    ELSE IF At(s, i0) \in Digits THEN DigitsEnd(s, i0)
    ELSE i0

\* NUMBER_RE.match(s, i): (-?(?:0|[1-9]\d*))(\.\d+)?([eE][-+]?\d+)?
ScanNumber(s, i) ==
    Only({Only({Only({Only({NumberFrom(s, i, i0, intEnd, expEnd)
                : expEnd \in {ExponentEnd(s, fracEnd)}})
            : fracEnd \in {FractionEnd(s, intEnd)}})
        : intEnd \in {IntegerEnd(s, i0)}})
    : i0 \in {IF At(s, i) = "-" THEN i + 1 ELSE i}})

SimpleEscapes == {"\"", "\\", "/", "b", "f", "n", "r", "t"}
Unescape(c) ==
    CASE c = "b" -> "\\b" [] c = "f" -> "\f" [] c = "n" -> "\n"
      [] c = "r" -> "\r" [] c = "t" -> "\t" [] OTHER -> c
HexDigits == Digits \cup {"a", "b", "c", "d", "e", "f",
                          "A", "B", "C", "D", "E", "F"}
ControlChars == {"\t", "\n", "\r", "\f"}

\* the first index from i on that ends a run of plain characters: the
\* closing quote, a backslash, a control character or the end of the text
ChunkEnd(s, i) ==
    CHOOSE j \in i..(Len(s) + 1) :
        /\ At(s, j) \in {"", "\"", "\\"} \cup ControlChars
        /\ \A k \in i..(j - 1) : s[k] \notin {"\"", "\\"} \cup ControlChars

RECURSIVE ScanString(_, _, _)
\* py_scanstring(s, i, strict=True): i is the index after the opening quote
\* and acc the characters read so far; val is the sequence of characters of
\* the string.  A \uXXXX escape is kept as one element naming its code point.
ScanString(s, i, acc) ==
    Only({
        IF At(s, j) = "\"" THEN Parsed(acc \o SubSeq(s, i, j - 1), j + 1)
        ELSE IF At(s, j) # "\\" THEN Failed
        ELSE IF At(s, j + 1) \in SimpleEscapes
        THEN Only({ScanString(s, q, a) :
                    q \in {j + 2},
                    a \in {Append(acc \o SubSeq(s, i, j - 1),
                                  Unescape(At(s, j + 1)))}})
        ELSE IF /\ At(s, j + 1) = "u"
                /\ \A k \in 2..5 : At(s, j + k) \in HexDigits
        THEN Only({ScanString(s, q, a) :
                    q \in {j + 6},
                    a \in {Append(acc \o SubSeq(s, i, j - 1),
                              "\\u" \o Concat(SubSeq(s, j + 2, j + 5)))}})
        ELSE Failed
    : j \in {ChunkEnd(s, i)}})

RECURSIVE ScanOnce(_, _), ArrayItems(_, _, _), ObjectMembers(_, _, _)

\* the array after an item: "]" ends it, "," announces the next item
ArrayAfterItem(s, j, items) ==
    IF At(s, j) = "]" THEN Parsed(JArr(items), j + 1)
    ELSE IF At(s, j) # "," THEN Failed
    ELSE Only({ArrayItems(s, q, items) : q \in {SkipWs(s, j + 1)}})

\* one pass of the item loop of JSONArray: an item starts at i
ArrayItems(s, i, acc) ==
    Only({
        IF ~item.ok THEN Failed
        ELSE Only({ArrayAfterItem(s, j, items) :
                    j \in {SkipWs(s, item.end)},
                    items \in {Append(acc, item.val)}})
    : item \in {ScanOnce(s, i)}})

\* JSONArray: i is the index after "["
JSONArray(s, i) ==
    Only({
        IF At(s, j) = "]" THEN Parsed(JArr(<<>>), j + 1)
        ELSE ArrayItems(s, j, <<>>)
    : j \in {SkipWs(s, i)}})

\* the object after a member: "}" ends it, "," announces the next key
ObjectAfterMember(s, j, pairs) ==
    IF At(s, j) = "}" THEN Parsed(JObj(pairs), j + 1)
    ELSE IF At(s, j) # "," THEN Failed
    ELSE Only({
            IF At(s, q) # "\"" THEN Failed
            ELSE ObjectMembers(s, q + 1, pairs)
         : q \in {SkipWs(s, j + 1)}})

\* the member whose key has been read: ":" and the value follow at c
ObjectAfterKey(s, c, key, acc) ==
    IF At(s, c) # ":" THEN Failed
    ELSE Only({
            IF ~val.ok THEN Failed
            ELSE Only({ObjectAfterMember(s, j, pairs) :
                        j \in {SkipWs(s, val.end)},
                        pairs \in {(key :> val.val) @@ acc}})
         : val \in {Only({ScanOnce(s, v) : v \in {SkipWs(s, c + 1)}})}})

\* one pass of the member loop of JSONObject: i is the index after the
\* key's opening quote; acc is the dict of the pairs read so far (a later
\* pair replaces an earlier one of the same key, as dict(pairs) does)
ObjectMembers(s, i, acc) ==
    Only({
        IF ~key.ok THEN Failed
        ELSE Only({ObjectAfterKey(s, c, k, acc) :
                    c \in {SkipWs(s, key.end)}, k \in {Concat(key.val)}})
    : key \in {ScanString(s, i, <<>>)}})

\* JSONObject: i is the index after "{"
JSONObject(s, i) ==
    Only({
        IF At(s, j) = "}" THEN Parsed(EmptyDict, j + 1)
        ELSE IF At(s, j) # "\"" THEN Failed
        ELSE ObjectMembers(s, j + 1, <<>>)
    : j \in {SkipWs(s, i)}})

\* a str value starting after the quote at i
StringValue(s, i) ==
    Only({IF str.ok THEN Parsed(JStr(str.val), str.end) ELSE Failed
          : str \in {ScanString(s, i + 1, <<>>)}})

\* a number, NaN, Infinity or -Infinity at i
NumberValue(s, i) ==
    Only({
        IF num.ok THEN num
        ELSE IF StartsWithAt(s, i, <<"N", "a", "N">>)
        THEN Parsed(JFloat(SubSeq(s, i, i + 2)), i + 3)
        ELSE IF StartsWithAt(s, i, <<"I", "n", "f", "i", "n", "i", "t", "y">>)
        THEN Parsed(JFloat(SubSeq(s, i, i + 7)), i + 8)
        ELSE IF StartsWithAt(s, i,
                    <<"-", "I", "n", "f", "i", "n", "i", "t", "y">>)
        THEN Parsed(JFloat(SubSeq(s, i, i + 8)), i + 9)
        ELSE Failed
    : num \in {ScanNumber(s, i)}})

\* scan_once(s, i)
ScanOnce(s, i) ==
    Only({
        IF c = "" THEN Failed
        ELSE IF c = "\"" THEN StringValue(s, i)
        ELSE IF c = "{" THEN JSONObject(s, i + 1)
        ELSE IF c = "[" THEN JSONArray(s, i + 1)
        ELSE IF StartsWithAt(s, i, <<"n", "u", "l", "l">>)
        THEN Parsed(JNull, i + 4)
        ELSE IF StartsWithAt(s, i, <<"t", "r", "u", "e">>)
        THEN Parsed(JBool(TRUE), i + 4)
        ELSE IF StartsWithAt(s, i, <<"f", "a", "l", "s", "e">>)
        THEN Parsed(JBool(FALSE), i + 5)
        ELSE NumberValue(s, i)
    : c \in {At(s, i)}})

\* the value when nothing but whitespace follows it
WholeText(text, v) ==
    IF ~v.ok THEN Failed
    ELSE IF SkipWs(text, v.end) # Len(text) + 1 THEN Failed
    ELSE v

\* json.loads(text): the value, or JSONDecodeError (ok = FALSE)
JsonLoads(text) ==
    Only({Only({WholeText(t, v) : v \in {Only({ScanOnce(t, i) :
                                            i \in {SkipWs(t, 1)}})}})
          : t \in {text}})

-----------------------------------------------------------------------------
(* FileFlowsApiClient._request (api.py lines 52-111) *)

\* A response is what the awaits of lines 72-91 deliver: a timeout
\* (asyncio.TimeoutError), a transport failure (aiohttp.ClientError), or a
\* status with the text of the body.
Timeout == [kind |-> "timeout", status |-> 0, text |-> <<>>]
ClientError == [kind |-> "client_error", status |-> 0, text |-> <<>>]
Http(status, text) == [kind |-> "http", status |-> status, text |-> text]

\* What a call returns or raises.  msg is the exception's message, kept as
\* its format and arguments; parsed tells whether json.loads was called.
Return(v) ==
    [kind |-> "return", value |-> v, msg |-> <<>>, parsed |-> TRUE]
Raise(exc, msg, parsed) ==
    [kind |-> exc, value |-> JNull, msg |-> msg, parsed |-> parsed]
NoResult == [kind |-> "none", value |-> JNull, msg |-> <<>>, parsed |-> FALSE]
ApiError == "FileFlowsApiError"

\* the 404 test of line 83 is missing
StatusErrorWithout404(endpoint, resp) ==
    IF resp.status >= 400
    THEN Raise(ApiError, <<"API error", resp.status, resp.text>>, FALSE)
    ELSE NoResult

\* lines 83-88: the error a status raises, NoResult when it raises none
StatusError(endpoint, resp) ==
    IF resp.status = 404
    THEN Raise(ApiError, <<"Endpoint not found", endpoint>>, FALSE)
    ELSE IF resp.status >= 400
    THEN Raise(ApiError, <<"API error", resp.status, resp.text>>, FALSE)
    ELSE NoResult

\* a body that json.loads rejects is returned as an empty dict
DecodeBodySwallowing(endpoint, text) ==
    LET loaded == JsonLoads(text)
    IN  IF loaded.ok THEN Return(loaded.val) ELSE Return(EmptyDict)

\* lines 90-106: the text is read and handed to json.loads
DecodeBody(endpoint, text) ==
    LET loaded == JsonLoads(text)
    IN  IF loaded.ok THEN Return(loaded.val)
        ELSE Raise(ApiError, <<"Invalid JSON response from", endpoint>>, TRUE)

\* the handler of lines 108-109 is missing: the timeout escapes
TimeoutEscapes(endpoint) == Raise("TimeoutError", <<>>, FALSE)

\* lines 108-109
OnTimeout(endpoint) ==
    Raise(ApiError, <<"Timeout connecting to", endpoint>>, FALSE)

\* lines 110-111
OnClientError(endpoint) ==
    Raise(ApiError, <<"Error connecting to", endpoint>>, FALSE)

\* _request(method, endpoint): the method does not enter the outcome.
Request(endpoint, resp) ==
    CASE resp.kind = "timeout" -> OnTimeout(endpoint)
      [] resp.kind = "client_error" -> OnClientError(endpoint)
      [] OTHER ->
            IF StatusError(endpoint, resp) # NoResult
            THEN StatusError(endpoint, resp)
            ELSE DecodeBody(endpoint, resp.text)

\* str(err) of a raised result, as a Python str value
StrOf(res) == JStr(res.msg)

-----------------------------------------------------------------------------
(* The responses _request is applied to *)

MaxBodyLen == 3
MaxItems == 2

Alphabet == {"{", "}", "[", "]", "\"", ":", ",", "1", "n", "u", "l", " "}

RECURSIVE Texts(_)
\* every text of at most n characters of the alphabet
Texts(n) ==
    IF n = 0 THEN {<<>>}
    ELSE LET shorter == Texts(n - 1)
         IN  shorter \cup {Append(t, c) : t \in shorter, c \in Alphabet}

\* Documents: a value together with the order its members are written in.
\* An object is <<"members", pairs>> with pairs a sequence of <<key, doc>>,
\* key a sequence of characters.
NoDoc == <<"nodoc">>
Atoms == {JNull, JBool(TRUE), JBool(FALSE), JNum(0), JNum(120), JNum(0 - 3),
          JStr(<<>>), JStr(<<"o", "k">>)}
DocKeys == {<<"a">>, <<"e", "r", "r", "o", "r">>}
SeqsUpTo(S, n) == UNION {[1..k -> S] : k \in 0..n}
Containers(S) ==
    {<<"arr", items>> : items \in SeqsUpTo(S, MaxItems)}
      \cup {<<"members", pairs>> : pairs \in SeqsUpTo(DocKeys \X S, MaxItems)}
Inner == {JNull, JNum(1), <<"arr", <<>> >>, <<"members", <<>> >>,
          <<"arr", <<JStr(<<"x">>)>> >>,
          <<"members", << <<<<"a">>, JBool(TRUE)>> >> >>}
Docs == Atoms \cup Containers(Atoms) \cup Containers(Inner)

RECURSIVE Denote(_)
\* the Python value a document stands for
Denote(d) ==
    CASE d[1] = "arr" -> JArr([i \in 1..Len(d[2]) |-> Denote(d[2][i])])
      [] d[1] = "members" ->
            LET pairs == d[2]
                keys == {Concat(pairs[i][1]) : i \in 1..Len(pairs)}
                last(k) == CHOOSE i \in 1..Len(pairs) :
                              /\ Concat(pairs[i][1]) = k
                              /\ \A j \in (i + 1)..Len(pairs) :
                                    Concat(pairs[j][1]) # k
            IN  JObj([k \in keys |-> Denote(pairs[last(k)][2])])
      [] OTHER -> d

DigitChar(n) == <<"0", "1", "2", "3", "4", "5", "6", "7", "8", "9">>[n + 1]
RECURSIVE NatChars(_)
NatChars(n) ==
    IF n < 10 THEN <<DigitChar(n)>>
    ELSE NatChars(n \div 10) \o <<DigitChar(n % 10)>>

RECURSIVE Dumps(_, _), DumpItems(_, _, _), DumpMembers(_, _, _)
\* the text of a document; sep is written after "," and ":" (json.dumps
\* writes one space, a compact encoder none).  The strings of Docs need no
\* escaping.
Dumps(d, sep) ==
    CASE d[1] = "null" -> <<"n", "u", "l", "l">>
      [] d[1] = "bool" -> IF d[2] THEN <<"t", "r", "u", "e">>
                          ELSE <<"f", "a", "l", "s", "e">>
      [] d[1] = "num" -> IF d[2] < 0 THEN <<"-">> \o NatChars(0 - d[2])
                         ELSE NatChars(d[2])
      [] d[1] = "str" -> <<"\"">> \o d[2] \o <<"\"">>
      [] d[1] = "arr" -> <<"[">> \o DumpItems(d[2], 1, sep) \o <<"]">>
      [] d[1] = "members" -> <<"{">> \o DumpMembers(d[2], 1, sep) \o <<"}">>

DumpItems(items, i, sep) ==
    IF i > Len(items) THEN <<>>
    ELSE (IF i > 1 THEN <<",">> \o sep ELSE <<>>)
            \o Dumps(items[i], sep) \o DumpItems(items, i + 1, sep)

DumpMembers(pairs, i, sep) ==
    IF i > Len(pairs) THEN <<>>
    ELSE (IF i > 1 THEN <<",">> \o sep ELSE <<>>)
            \o <<"\"">> \o pairs[i][1] \o <<"\"", ":">> \o sep
            \o Dumps(pairs[i][2], sep) \o DumpMembers(pairs, i + 1, sep)

Separators == {<<>>, <<" ">>}

\* bodies a server may send besides the enumerated ones
SampleTexts ==
    {<<>>, <<" ">>, <<"n", "u", "l", "l">>, <<"t", "r", "u", "e">>,
     <<"O", "K">>, <<"{", "}">>, <<"[", "1", "]">>,
     <<"<", "h", "t", "m", "l", ">">>, <<"\"", "a", "\"">>,
     <<"1", ".", "5">>, <<"{", "\"", "a", "\"", ":", "1", ",", "}">>}

StatusCodes == 200..599

TheEndpoint == "/api/status"

-----------------------------------------------------------------------------
(* Python operations the client and the entities apply to values *)

\* bool(v)
Truthy(v) ==
    CASE v[1] = "null" -> FALSE
      [] v[1] = "bool" -> v[2]
      [] v[1] = "num" -> v[2] # 0
      [] v[1] = "float" ->
            \E i \in 1..Len(v[2]) :
                /\ v[2][i] \in (Digits \ {"0"}) \cup {"N", "I"}
                /\ \A j \in 1..i : v[2][j] \notin {"e", "E"}
      [] OTHER -> v[2] # <<>>

\* d.get(key, default) of a dict d
DictGet(d, key, default) ==
    IF key \in DOMAIN d[2] THEN d[2][key] ELSE default

\* whether the str spelled by word occurs in chars
IsSubstring(word, chars) ==
    \E i \in 1..(Len(chars) - Len(word) + 1) :
        SubSeq(chars, i, i + Len(word) - 1) = word

NoException == "none"
\* the exception that evaluating  word in v  raises, NoException if none
InRaises(v) ==
    IF v[1] \in {"obj", "arr", "str"} THEN NoException ELSE "TypeError"
\* word in v, for a v that supports it
In(word, v) ==
    CASE v[1] = "obj" -> Concat(word) \in DOMAIN v[2]
      [] v[1] = "arr" -> \E i \in 1..Len(v[2]) : v[2][i] = JStr(word)
      [] v[1] = "str" -> IsSubstring(word, v[2])

ErrorWord == <<"e", "r", "r", "o", "r">>

-----------------------------------------------------------------------------
(* The endpoint methods of FileFlowsApiClient (api.py lines 113-221) *)

StatusPath == "/api/status"

\* the flows are fetched before the system information
OptionalKeysFlowsFirst ==
    <<"flows", "system_info", "libraries", "nodes", "statistics", "settings",
      "plugins", "file_history">>

\* additional_endpoints of get_comprehensive_data, in its order
OptionalKeys ==
    <<"system_info", "flows", "libraries", "nodes", "statistics", "settings",
      "plugins", "file_history">>

\* the paths a method requests, in order: endpoints_to_try of the probing
\* methods, the one path of the others
Candidates(key) ==
    CASE key = "system_info" ->
            <<"/api/system", "/api/system/info", "/api/info", "/api/version">>
      [] key = "flows" -> <<"/api/flows">>
      [] key = "libraries" -> <<"/api/libraries">>
      [] key = "nodes" -> <<"/api/nodes", "/api/workers", "/api/node">>
      [] key = "statistics" ->
            <<"/api/statistics", "/api/stats", "/api/dashboard",
              "/api/dashboard/statistics">>
      [] key = "settings" -> <<"/api/settings">>
      [] key = "plugins" -> <<"/api/plugins">>
      [] key = "file_history" ->
            <<"/api/files?limit=5", "/api/history?limit=5",
              "/api/file-history?limit=5">>
      [] key = "log_entries" ->
            <<"/api/logs?lines=100", "/api/log?lines=100">>

\* a str of the source, kept whole
Literal(s) == JStr(<<s>>)

\* what a method returns when every path has failed
Fallback(key) ==
    CASE key = "system_info" ->
            JObj("error" :> Literal("No system info endpoint available"))
      [] key = "flows" ->
            JObj("flows" :> JArr(<<>>) @@ "error" :> Literal("Could not get flows"))
      [] key = "libraries" ->
            JObj("libraries" :> JArr(<<>>)
                 @@ "error" :> Literal("Could not get libraries"))
      [] key = "nodes" ->
            JObj("nodes" :> JArr(<<>>) @@ "error" :> Literal("Could not get nodes"))
      [] key = "statistics" ->
            JObj("statistics" :> EmptyDict
                 @@ "error" :> Literal("Could not get statistics"))
      [] key = "settings" ->
            JObj("settings" :> EmptyDict
                 @@ "error" :> Literal("Could not get settings"))
      [] key = "plugins" ->
            JObj("plugins" :> JArr(<<>>)
                 @@ "error" :> Literal("Could not get plugins"))
      [] key = "file_history" ->
            JObj("files" :> JArr(<<>>)
                 @@ "error" :> Literal("Could not get file history"))
      [] key = "log_entries" ->
            JObj("logs" :> JArr(<<>>) @@ "error" :> Literal("Could not get logs"))

\* the method gives up at the first path that fails
MethodAfterGivingUp(key, i, r) ==
    IF r.kind = "return" THEN [next |-> 0, out |-> r, last |-> r]
    ELSE IF r.kind # ApiError THEN [next |-> 0, out |-> r, last |-> r]
    ELSE [next |-> 0, out |-> Return(Fallback(key)), last |-> r]

\* the method of key after its request of path i ended as r.
\* next > 0: the method requests path next; next = 0: the method ends with out.
MethodAfter(key, i, r) ==
    IF r.kind = "return" THEN [next |-> 0, out |-> r, last |-> r]
    ELSE IF r.kind # ApiError THEN [next |-> 0, out |-> r, last |-> r]
    ELSE IF i < Len(Candidates(key))
    THEN [next |-> i + 1, out |-> NoResult, last |-> r]
    ELSE [next |-> 0, out |-> Return(Fallback(key)), last |-> r]

\* a path that failed spoils the method: a later path that answers yields
\* the fallback all the same
MethodStepSpoiled(key, i, resp) ==
    Only({IF i > 1 /\ r.kind = "return"
          THEN [next |-> 0, out |-> Return(Fallback(key)), last |-> r]
          ELSE MethodAfter(key, i, r) : r \in {Request(Candidates(key)[i], resp)}})

\* One pass of a method's try: the response to its i-th path has arrived.
MethodStep(key, i, resp) ==
    Only({MethodAfter(key, i, r) : r \in {Request(Candidates(key)[i], resp)}})

-----------------------------------------------------------------------------
(* get_comprehensive_data (api.py lines 237-270) *)

\* a failed status request is stored as None
StatusEntryNone(d, r) ==
    IF r.kind = "return" THEN ("status" :> r.value) @@ d
    ELSE ("status" :> JNull) @@ d

\* a failed status request leaves the snapshot without a status entry
StatusEntryDropped(d, r) ==
    IF r.kind = "return" THEN ("status" :> r.value) @@ d ELSE d

\* lines 242-246: the status entry of data
StatusEntry(d, r) ==
    IF r.kind = "return" THEN ("status" :> r.value) @@ d
    ELSE ("status" :> JObj("error" :> StrOf(r))) @@ d

\* whatever a method returns is stored
StoredWhenReturned(out) == out.kind = "return"

\* whether lines 262-264 store the outcome of a method
Stored(out) ==
    /\ out.kind = "return"
    /\ IsDict(out.value)
    /\ ~Truthy(DictGet(out.value, "error", JNull))

\* an endpoint that reports an error marks the whole snapshot
MergeMarkingStatus(d, key, out) ==
    IF Stored(out) THEN (key :> out.value) @@ d
    ELSE ("status" :> JObj("error" :> Literal("degraded"))) @@ d

\* lines 261-268: data after the outcome of the method of key
Merge(d, key, out) ==
    IF Stored(out) THEN (key :> out.value) @@ d ELSE d

RECURSIVE MergeFrom(_, _, _)
\* lines 260-268 as a whole: data after the methods from the i-th on, given
\* what each method returned (g)
MergeFrom(d, g, i) ==
    IF i > Len(OptionalKeys) THEN d
    ELSE MergeFrom(Merge(d, OptionalKeys[i], g[OptionalKeys[i]].out), g, i + 1)

\* the dict get_comprehensive_data returns, given what each method returned
ComprehensiveData(g) ==
    JObj(MergeFrom(StatusEntry(<<>>, g["status"].out), g, 1))

IndexOf(key) == CHOOSE i \in 1..Len(OptionalKeys) : OptionalKeys[i] = key

\* the loop is left after its first method
AfterReturningEarly(key, out) == "idle"

\* line 260: the position after the method of key, "idle" after the last
After(key, out) ==
    IF IndexOf(key) < Len(OptionalKeys)
    THEN OptionalKeys[IndexOf(key) + 1]
    ELSE "idle"

-----------------------------------------------------------------------------
(* FileFlowsDataUpdateCoordinator (__init__.py lines 24-62) *)

SCAN_INTERVAL == 30

\* line 35
UpdateInterval(scan_interval) ==
    IF scan_interval = 0 THEN SCAN_INTERVAL ELSE scan_interval

\* a failed status request is signalled to the host as an update failure
UpdateDataHardFail(out) ==
    IF out.kind = "return"
           /\ InRaises(out.value[2]["status"]) = NoException
           /\ In(ErrorWord, out.value[2]["status"])
    THEN Raise("UpdateFailed", <<"Error communicating with API">>, FALSE)
    ELSE out

\* _async_update_data, given how get_comprehensive_data ended
UpdateData(out) ==
    IF out.kind = "return" THEN out
    ELSE IF out.kind = ApiError
    THEN Return(JObj("status" :> JObj("error" :> StrOf(out))))
    ELSE Raise("UpdateFailed", <<"Error communicating with API">>, FALSE)

\* coordinator.data after a refresh: the host stores what _async_update_data
\* returned and keeps the old data when it raised
DataAfter(old, out) == IF out.kind = "return" THEN out.value ELSE old
SuccessAfter(out) == out.kind = "return"

-----------------------------------------------------------------------------
(* The entities (sensor.py, binary_sensor.py).  Each property is evaluated *)
(* on coordinator.data (d) and coordinator.last_update_success (lus); it   *)
(* yields a Python value, or Raised(exc) when evaluating it raises.        *)

Raised(exc) == <<"raise", exc>>
IsRaised(v) == v[1] = "raise"
PyTrue == JBool(TRUE)
PyFalse == JBool(FALSE)
PyNone == JNull

\* a and b, where b is evaluated only when a is true
PyAnd(a, b) == IF a = PyTrue THEN b ELSE a

\* "error" not in v
ErrorNotIn(v) ==
    IF InRaises(v) # NoException THEN Raised(InRaises(v))
    ELSE JBool(~In(ErrorWord, v))

\* the error marker of the status entry is not looked at
BaseAvailableIgnoringError(d, lus) ==
    JBool(lus /\ d # PyNone /\ "status" \in DOMAIN d[2])

\* FileFlowsBaseSensor.available (sensor.py lines 81-89), and the same
\* expression of FileFlowsStatusBinarySensor.is_on (binary_sensor.py lines
\* 75-83) and FileFlowsProcessingBinarySensor.available (lines 118-126)
BaseAvailable(d, lus) ==
    IF ~(lus /\ d # PyNone /\ "status" \in DOMAIN d[2]) THEN PyFalse
    ELSE ErrorNotIn(DictGet(d, "status", EmptyDict))

\* the available property of the count sensors (sensor.py lines 303-310,
\* 355-362, 387-394, 419-426)
KeyAvailable(key, d, lus) ==
    PyAnd(BaseAvailable(d, lus),
          IF key \notin DOMAIN d[2] THEN PyFalse
          ELSE ErrorNotIn(DictGet(d, key, EmptyDict)))

\* FileFlowsNodesActiveBinarySensor.available (binary_sensor.py lines 177-185)
NodesActiveAvailable(d, lus) ==
    IF ~(lus /\ d # PyNone /\ "nodes" \in DOMAIN d[2]) THEN PyFalse
    ELSE ErrorNotIn(DictGet(d, "nodes", EmptyDict))

\* v.get(key, default): only a dict has get
Get(v, key, default) ==
    IF IsDict(v) THEN DictGet(v, key, default) ELSE Raised("AttributeError")

\* len(v)
PyLen(v) ==
    CASE v[1] \in {"arr", "str"} -> JNum(Len(v[2]))
      [] v[1] = "obj" -> JNum(Cardinality(DOMAIN v[2]))
      [] v[1] = "raise" -> v
      [] OTHER -> Raised("TypeError")

\* len(v) if isinstance(v, list) else 0
ListLen(v) ==
    CASE v[1] = "arr" -> JNum(Len(v[2]))
      [] v[1] = "raise" -> v
      [] OTHER -> JNum(0)

\* v > 0
Positive(v) ==
    CASE v[1] = "num" -> JBool(v[2] > 0)
      [] v[1] = "bool" -> JBool(v[2])
      [] v[1] = "float" -> JBool(Truthy(v) /\ v[2][1] # "-" /\ v[2][1] # "N")
      [] v[1] = "raise" -> v
      [] OTHER -> Raised("TypeError")

Sensors ==
    {"queue", "processing", "processed", "time", "processing_files",
     "system_status", "nodes", "flows", "libraries", "plugins"}
BinarySensors == {"status", "processing_active", "nodes_active"}
Entities == Sensors \cup BinarySensors

StatusSensors == {"queue", "processing", "processed", "time", "processing_files"}

\* the entity's available property
Available(e, d, lus) ==
    CASE e \in {"nodes", "flows", "libraries", "plugins"} ->
            KeyAvailable(e, d, lus)
      [] e \in StatusSensors \cup {"system_status", "processing_active"} ->
            BaseAvailable(d, lus)
      [] e = "nodes_active" -> NodesActiveAvailable(d, lus)
      [] e = "status" -> JBool(lus)

\* nodes_data.get("nodes", nodes_data.get("workers", []))
NodeList(d) ==
    LET nodes_data == DictGet(d, "nodes", EmptyDict)
        workers == Get(nodes_data, "workers", JArr(<<>>))
    IN  IF IsRaised(workers) THEN workers
        ELSE Get(nodes_data, "nodes", workers)

\* [n for n in nodes if n.get("enabled", True)] is not empty
AnyEnabled(nodes) ==
    LET enabled(i) == Get(nodes[2][i], "enabled", PyTrue)
    IN  IF \E i \in 1..Len(nodes[2]) : IsRaised(enabled(i))
        THEN Raised("AttributeError")
        ELSE JBool(\E i \in 1..Len(nodes[2]) : Truthy(enabled(i)))

\* the value properties read the snapshot itself
StatusOfSnapshot(d) == d

\* the status entry read by the value properties
StatusOf(d) == DictGet(d, "status", EmptyDict)

\* the entity's native_value (a sensor) or is_on (a binary sensor)
State(e, d, lus) ==
    LET avail == Available(e, d, lus)
    IN  CASE e = "status" -> BaseAvailable(d, lus)
          [] e = "nodes_active" ->
                IF IsRaised(avail) THEN avail
                ELSE IF avail = PyFalse THEN PyFalse
                ELSE IF IsRaised(NodeList(d)) THEN NodeList(d)
                ELSE IF IsList(NodeList(d)) THEN AnyEnabled(NodeList(d))
                ELSE PyFalse
          [] e = "processing_active" ->
                IF IsRaised(avail) THEN avail
                ELSE IF avail = PyFalse THEN PyFalse
                ELSE Positive(Get(StatusOf(d), "processing", JNum(0)))
          [] e = "system_status" ->
                IF IsRaised(avail) THEN avail
                ELSE IF avail = PyFalse THEN Literal("offline")
                ELSE Literal("online")
          [] OTHER ->
                IF IsRaised(avail) THEN avail
                ELSE IF avail = PyFalse THEN PyNone
                ELSE CASE e = "queue" -> Get(StatusOf(d), "queue", PyNone)
                       [] e = "processing" ->
                            Get(StatusOf(d), "processing", PyNone)
                       [] e = "processed" ->
                            Get(StatusOf(d), "processed", PyNone)
                       [] e = "time" -> Get(StatusOf(d), "time", PyNone)
                       [] e = "processing_files" ->
                            PyLen(Get(StatusOf(d), "processingFiles",
                                      JArr(<<>>)))
                       [] e = "nodes" -> ListLen(NodeList(d))
                       [] e = "flows" ->
                            ListLen(Get(DictGet(d, "flows", EmptyDict),
                                        "flows", JArr(<<>>)))
                       [] e = "libraries" ->
                            ListLen(Get(DictGet(d, "libraries", EmptyDict),
                                        "libraries", JArr(<<>>)))
                       [] e = "plugins" ->
                            ListLen(Get(DictGet(d, "plugins", EmptyDict),
                                        "plugins", JArr(<<>>)))

-----------------------------------------------------------------------------
(* Bodies the model servers send *)

\* {"queue":3,"processing":1,"processed":120,"time":"01:15"}
StatusText ==
    <<"{", "\"", "q", "u", "e", "u", "e", "\"", ":", "3", ",", "\"", "p",
      "r", "o", "c", "e", "s", "s", "i", "n", "g", "\"", ":", "1", ",",
      "\"", "p", "r", "o", "c", "e", "s", "s", "e", "d", "\"", ":", "1",
      "2", "0", ",", "\"", "t", "i", "m", "e", "\"", ":", "\"", "0", "1",
      ":", "1", "5", "\"", "}">>

\* {"queue":0,"processing":2,"processed":7,"time":"00:09","processingFiles":[{"name":"a"},{"name":"b"}]}
BusyStatusText ==
    <<"{", "\"", "q", "u", "e", "u", "e", "\"", ":", "0", ",", "\"", "p",
      "r", "o", "c", "e", "s", "s", "i", "n", "g", "\"", ":", "2", ",",
      "\"", "p", "r", "o", "c", "e", "s", "s", "e", "d", "\"", ":", "7",
      ",", "\"", "t", "i", "m", "e", "\"", ":", "\"", "0", "0", ":", "0",
      "9", "\"", ",", "\"", "p", "r", "o", "c", "e", "s", "s", "i", "n",
      "g", "F", "i", "l", "e", "s", "\"", ":", "[", "{", "\"", "n", "a",
      "m", "e", "\"", ":", "\"", "a", "\"", "}", ",", "{", "\"", "n", "a",
      "m", "e", "\"", ":", "\"", "b", "\"", "}", "]", "}">>

\* {"error":"busy"}
ErrorStatusText ==
    <<"{", "\"", "e", "r", "r", "o", "r", "\"", ":", "\"", "b", "u", "s",
      "y", "\"", "}">>

\* {"version":"1.0"}
SystemText ==
    <<"{", "\"", "v", "e", "r", "s", "i", "o", "n", "\"", ":", "\"", "1",
      ".", "0", "\"", "}">>

\* {"flows":[1,2]}
FlowsText ==
    <<"{", "\"", "f", "l", "o", "w", "s", "\"", ":", "[", "1", ",", "2",
      "]", "}">>

\* [{"name":"f"}]
FlowsListText ==
    <<"[", "{", "\"", "n", "a", "m", "e", "\"", ":", "\"", "f", "\"", "}",
      "]">>

\* {"libraries":[1]}
LibrariesText ==
    <<"{", "\"", "l", "i", "b", "r", "a", "r", "i", "e", "s", "\"", ":",
      "[", "1", "]", "}">>

\* {"error":"denied"}
DeniedText ==
    <<"{", "\"", "e", "r", "r", "o", "r", "\"", ":", "\"", "d", "e", "n",
      "i", "e", "d", "\"", "}">>

\* {"nodes":[{"enabled":true},{"enabled":false}]}
NodesText ==
    <<"{", "\"", "n", "o", "d", "e", "s", "\"", ":", "[", "{", "\"", "e",
      "n", "a", "b", "l", "e", "d", "\"", ":", "t", "r", "u", "e", "}", ",",
      "{", "\"", "e", "n", "a", "b", "l", "e", "d", "\"", ":", "f", "a",
      "l", "s", "e", "}", "]", "}">>

\* {"workers":[{"enabled":false}]}
WorkersText ==
    <<"{", "\"", "w", "o", "r", "k", "e", "r", "s", "\"", ":", "[", "{",
      "\"", "e", "n", "a", "b", "l", "e", "d", "\"", ":", "f", "a", "l",
      "s", "e", "}", "]", "}">>

\* {"statistics":{}}
StatisticsText ==
    <<"{", "\"", "s", "t", "a", "t", "i", "s", "t", "i", "c", "s", "\"",
      ":", "{", "}", "}">>

\* {"settings":{},"error":null}
SettingsText ==
    <<"{", "\"", "s", "e", "t", "t", "i", "n", "g", "s", "\"", ":", "{",
      "}", ",", "\"", "e", "r", "r", "o", "r", "\"", ":", "n", "u", "l",
      "l", "}">>

\* {"plugins":[]}
PluginsText ==
    <<"{", "\"", "p", "l", "u", "g", "i", "n", "s", "\"", ":", "[", "]",
      "}">>

\* {"files":[1]}
FilesText ==
    <<"{", "\"", "f", "i", "l", "e", "s", "\"", ":", "[", "1", "]", "}">>

\* <html>
HtmlText ==
    <<"<", "h", "t", "m", "l", ">">>

\* oops
OopsText ==
    <<"o", "o", "p", "s">>

\* {"queue":0,"processing":"2","processed":null,"time":90}
OddStatusText ==
    <<"{", "\"", "q", "u", "e", "u", "e", "\"", ":", "0", ",", "\"", "p",
      "r", "o", "c", "e", "s", "s", "i", "n", "g", "\"", ":", "\"", "2",
      "\"", ",", "\"", "p", "r", "o", "c", "e", "s", "s", "e", "d", "\"",
      ":", "n", "u", "l", "l", ",", "\"", "t", "i", "m", "e", "\"", ":",
      "9", "0", "}">>

\* {"success":true}
SuccessText ==
    <<"{", "\"", "s", "u", "c", "c", "e", "s", "s", "\"", ":", "t", "r",
      "u", "e", "}">>

\* {"success":false,"error":"busy"}
FailureText ==
    <<"{", "\"", "s", "u", "c", "c", "e", "s", "s", "\"", ":", "f", "a",
      "l", "s", "e", ",", "\"", "e", "r", "r", "o", "r", "\"", ":", "\"",
      "b", "u", "s", "y", "\"", "}">>

\* {"success":null}
NullSuccessText ==
    <<"{", "\"", "s", "u", "c", "c", "e", "s", "s", "\"", ":", "n", "u",
      "l", "l", "}">>

-----------------------------------------------------------------------------
(* The variables of the parts a specification leaves alone *)

RequestParked ==
    /\ response = Timeout
    /\ doc = NoDoc
    /\ result = NoResult

PollParked ==
    /\ profile = "none"
    /\ update_interval = 0
    /\ published = JNull
    /\ last_update_success = FALSE
    /\ pc = "parked"
    /\ cand = 0
    /\ data = <<>>
    /\ got = <<>>
    /\ faults = 0
    /\ failedPolls = 0
    /\ prev = <<"parked", 0>>
    /\ requests = <<>>

SetupParked ==
    /\ vkind = "none"
    /\ vconfig = <<>>
    /\ vpc = "parked"
    /\ vclient = <<>>
    /\ vrequests = <<>>
    /\ vresults = <<>>
    /\ voutcome = "none"

ServiceParked ==
    /\ call = <<"none", "none">>
    /\ cpc = "parked"
    /\ ncalls = 0
    /\ events = <<>>

HeaderParked ==
    /\ api_key = JNull
    /\ supplied = <<>>
    /\ sent = <<"parked">>

NodeParked ==
    /\ node_data = <<>>
    /\ entity = "none"
    /\ clock = 0
    /\ settings = <<>>
    /\ shown = <<"parked">>

ProbeParked ==
    /\ probe = <<"none", 0>>
    /\ asked = <<>>
    /\ returned = NoResult

EntryParked ==
    /\ entry_state = <<>>
    /\ hass_data = <<>>
    /\ platforms = {}
    /\ registered = <<>>
    /\ latest = [op |-> "parked"]

-----------------------------------------------------------------------------
(* SpecRequest: _request applied to every response of the bounded sets *)

RequestInit ==
    /\ result = NoResult
    /\ \/ /\ doc \in Docs
          /\ \E sep \in Separators : response = Http(200, Dumps(doc, sep))
       \/ /\ doc = NoDoc
          /\ response \in {Http(200, t) : t \in Texts(MaxBodyLen)}
                \cup {Http(st, t) : st \in StatusCodes, t \in SampleTexts}
                \cup {Timeout, ClientError}
    /\ PollParked
    /\ SetupParked
    /\ ServiceParked
    /\ HeaderParked
    /\ NodeParked
    /\ ProbeParked
    /\ EntryParked

\* one call of _request("GET", "/api/status")
DoRequest ==
    /\ result = NoResult
    /\ result' = Request(TheEndpoint, response)
    /\ UNCHANGED <<response, doc>>
    /\ UNCHANGED pollVars
    /\ UNCHANGED setupVars
    /\ UNCHANGED serviceVars
    /\ UNCHANGED entryVars
    /\ UNCHANGED probeVars
    /\ UNCHANGED nodeVars
    /\ UNCHANGED headerVars

SpecRequest == RequestInit /\ [][DoRequest]_vars

-----------------------------------------------------------------------------
(* Properties of _request *)

\* the call has ended on a response that carries a status below 400
AnsweredWithoutError ==
    /\ result # NoResult
    /\ response.kind = "http"
    /\ response.status < 400

\* the first character of the body that is not whitespace, "" if none
FirstChar(text) == At(text, SkipWs(text, 1))

C4_ReturnsWhateverParses ==
    AnsweredWithoutError =>
        IF JsonLoads(response.text).ok
        THEN /\ result.kind = "return"
             /\ doc # NoDoc => result.value = Denote(doc)
        ELSE result.kind = ApiError

\* C5: every status in 400..599 makes the call raise the API error, "not
\* found" for 404 and the error carrying the status (and the body text)
\* for the others, and the body is never handed to json.loads.
C5_ErrorStatusRaises ==
    (result # NoResult /\ response.kind = "http"
        /\ response.status \in 400..599) =>
        /\ result.kind = ApiError
        /\ ~result.parsed
        /\ result.msg = IF response.status = 404
                        THEN <<"Endpoint not found", TheEndpoint>>
                        ELSE <<"API error", response.status, response.text>>

\* a 404 or a 503 whose body is a JSON object has been answered by the
\* error of its status
C5_Witness ==
    /\ result.kind = ApiError
    /\ response.kind = "http"
    /\ response.text = <<"{", "}">>
    /\ \/ response.status = 404 /\ result.msg[1] = "Endpoint not found"
       \/ response.status = 503 /\ result.msg[1] = "API error"

\* C6 as claimed: an empty body on a status below 400 raises an "empty
\* response" error that is decided before json.loads is called.
C6_Original ==
    (AnsweredWithoutError /\ response.text = <<>>) =>
        /\ result.kind = ApiError
        /\ result.msg[1] = "Empty response"
        /\ ~result.parsed

\* C6 as amended: an empty body on a status below 400 is handed to
\* json.loads, which rejects it, and the call raises the same API error as
\* for any other malformed JSON ("Invalid JSON response from ...").
C6_EmptyBodyIsInvalidJson ==
    (AnsweredWithoutError /\ response.text = <<>>) =>
        result = Raise(ApiError, <<"Invalid JSON response from", TheEndpoint>>,
                       TRUE)

\* a 204 without a body has raised the API error
C6_Witness ==
    /\ response = Http(204, <<>>)
    /\ result.kind = ApiError
    /\ result.parsed

\* the response is one of the failures: 404, another status from 400 on,
\* a body json.loads rejects, a timeout, a transport error
FailureResponse ==
    \/ response.kind \in {"timeout", "client_error"}
    \/ response.kind = "http" /\ response.status >= 400
    \/ response.kind = "http" /\ ~JsonLoads(response.text).ok

\* C7: every failure of a request (404, another status from 400 on,
\* malformed JSON, timeout, transport error) leaves _request as a
\* FileFlowsApiError that carries a message; a call ends in no other way
\* than by returning or by that error.
C7_SingleErrorKind ==
    result # NoResult =>
        /\ result.kind \in {"return", ApiError}
        /\ FailureResponse => (result.kind = ApiError /\ result.msg # <<>>)
        /\ ~FailureResponse => result.kind = "return"

\* a timeout has surfaced as the API error with its message
C7_Witness ==
    /\ response = Timeout
    /\ result.kind = ApiError
    /\ result.msg[1] = "Timeout connecting to"

-----------------------------------------------------------------------------
(* Setup: validate_input (config_flow.py lines 36-97) and the connection   *)
(* test of async_setup_entry (__init__.py lines 65-111)                    *)

Absent == <<"absent">>

\* urlparse(url), kept as the two attributes the code reads
ParsedUrl(hostname, port) == <<"parsed", hostname, port>>

TheHost == Literal("ff.lan")
OtherHost == Literal("nas")

\* parsed.port raises ValueError for a port that is no number in 0..65535
BadPort == Raised("ValueError")

\* the values of CONF_URL, CONF_HOST and CONF_PORT in the input
UrlValues ==
    {Absent, JStr(<<>>), ParsedUrl(PyNone, PyNone), ParsedUrl(TheHost, PyNone),
     ParsedUrl(TheHost, JNum(19200)), ParsedUrl(TheHost, JNum(0)),
     ParsedUrl(TheHost, BadPort)}
HostValues == {Absent, JStr(<<>>), TheHost, OtherHost}
PortValues == {Absent, JNum(9000)}

\* a or b
PyOr(a, b) == IF Truthy(a) THEN a ELSE b

\* parsed.port or 8585
UrlPort(parsed) ==
    IF IsRaised(parsed[3]) THEN parsed[3] ELSE PyOr(parsed[3], JNum(8585))

\* the separate fields win over the URL whenever a host field is filled in
ResolveHostPreferringFields(config) ==
    IF config.host # Absent /\ Truthy(config.host)
    THEN [host |-> config.host,
          port |-> IF config.port = Absent THEN JNum(8585) ELSE config.port]
    ELSE IF config.url # Absent /\ Truthy(config.url)
    THEN [host |-> config.url[2], port |-> UrlPort(config.url)]
    ELSE [host |-> PyNone, port |-> JNum(8585)]

\* config_flow.py lines 39-52 and __init__.py lines 72-80: host and port
ResolveHost(config) ==
    IF config.url # Absent /\ Truthy(config.url)
    THEN [host |-> config.url[2], port |-> UrlPort(config.url)]
    ELSE [host |-> IF config.host = Absent THEN PyNone ELSE config.host,
          port |-> IF config.port = Absent THEN JNum(8585) ELSE config.port]

\* a request of the client: base_url (api.py lines 33-36) and the endpoint
ClientRequest(client, method, endpoint) ==
    [method |-> method, host |-> client.host, port |-> client.port,
     endpoint |-> endpoint]

\* the connection test counts every answered request as a success
TestConnectionTrusting(r) ==
    IF r.kind = "return" THEN Return(PyTrue)
    ELSE IF r.kind = ApiError THEN Return(PyTrue)
    ELSE r

\* test_connection (api.py lines 272-281), given how get_status ended: the
\* payload's get is called for the log line
TestConnection(r) ==
    IF r.kind = "return"
    THEN (IF IsDict(r.value) THEN Return(PyTrue)
          ELSE Raise("AttributeError", <<"get">>, r.parsed))
    ELSE IF r.kind = ApiError THEN Return(PyFalse)
    ELSE r

TimeoutWord == <<"t", "i", "m", "e", "o", "u", "t">>

\* c.lower(), for the letters of the bodies the servers send
LowerChar(c) ==
    CASE c = "T" -> "t" [] c = "G" -> "g" [] OTHER -> c
Lower(chars) == [i \in 1..Len(chars) |-> LowerChar(chars[i])]

\* the test of line 87 is missing: every API error is an invalid host
RejectionsForWithoutTimeoutTest(r) == {"InvalidHost"}

\* config_flow.py lines 85-90: the exceptions the handler of
\* FileFlowsApiError may raise.  The text aiohttp gives a transport error
\* is not fixed, so both are possible for it.
RejectionsFor(r) ==
    CASE r.msg[1] = "Timeout connecting to" -> {"CannotConnect"}
      [] r.msg[1] = "API error" ->
            IF IsSubstring(TimeoutWord, Lower(r.msg[3]))
            THEN {"CannotConnect"} ELSE {"InvalidHost"}
      [] r.msg[1] = "Error connecting to" -> {"CannotConnect", "InvalidHost"}
      [] OTHER -> {"InvalidHost"}

\* async_step_user (config_flow.py lines 109-133): errors["base"] after
\* validate_input ended, "none" when the entry is created
StepUserError(outcome) ==
    CASE outcome = "info" -> "none"
      [] outcome = "CannotConnect" -> "cannot_connect"
      [] outcome = "InvalidHost" -> "invalid_host"
      [] OTHER -> "unknown"

GatewayTimeoutText ==
    <<"G", "a", "t", "e", "w", "a", "y", " ", "T", "i", "m", "e", "o", "u", "t">>

\* what the server may answer to GET /api/status during setup
SetupAnswers ==
    {Http(200, StatusText), Http(200, ErrorStatusText), Http(200, <<"[", "]">>),
     Http(200, <<"7">>), Http(200, <<>>), Http(404, <<>>), Http(500, OopsText),
     Http(504, GatewayTimeoutText), Timeout, ClientError}

SetupInit ==
    /\ vkind \in {"validate_input", "async_setup_entry"}
    /\ vconfig \in [url : UrlValues, host : HostValues, port : PortValues]
    /\ vpc = "start"
    /\ vclient = <<>>
    /\ vrequests = <<>>
    /\ vresults = <<>>
    /\ voutcome = "none"
    /\ RequestParked
    /\ PollParked
    /\ ServiceParked
    /\ HeaderParked
    /\ NodeParked
    /\ ProbeParked
    /\ EntryParked

\* config_flow.py lines 39-68 / __init__.py lines 69-102: the host is
\* resolved; a port of the URL that cannot be read ends the function with
\* the ValueError of parsed.port, which is evaluated before the host is
\* looked at.  Without a host the function ends, with one it creates the
\* client and test_connection sends GET /api/status
ResolveAndTest ==
    /\ vpc = "start"
    /\ \E hp \in {ResolveHost(vconfig)} :
          IF IsRaised(hp.port)
          THEN /\ vpc' = "done"
               /\ voutcome' = "ValueError"
               /\ UNCHANGED <<vclient, vrequests>>
          ELSE IF ~Truthy(hp.host)
          THEN /\ vpc' = "done"
               /\ voutcome' = IF vkind = "validate_input" THEN "InvalidHost"
                               ELSE "return False"
               /\ UNCHANGED <<vclient, vrequests>>
          ELSE /\ vpc' = "test"
               /\ vclient' = hp
               /\ vrequests' = <<ClientRequest(hp, "GET", StatusPath)>>
               /\ UNCHANGED voutcome
    /\ UNCHANGED <<vkind, vconfig, vresults>>
    /\ UNCHANGED <<requestVars, pollVars, serviceVars, headerVars,
                 nodeVars,
                 probeVars,
                 entryVars>>

\* the request of test_connection ends.  validate_input (lines 68-72) goes
\* on to get_status when the test passed and raises CannotConnect
\* otherwise; async_setup_entry (lines 100-111) goes on to the first
\* refresh when the test passed and raises ConfigEntryNotReady otherwise.
TestResponse ==
    /\ vpc = "test"
    /\ \E resp \in SetupAnswers :
       \E r \in {Request(StatusPath, resp)} :
          /\ vresults' = Append(vresults, r)
          /\ IF TestConnection(r) = Return(PyTrue)
             THEN IF vkind = "validate_input"
                  THEN /\ vpc' = "status"
                       /\ vrequests' =
                             Append(vrequests,
                                    ClientRequest(vclient, "GET", StatusPath))
                       /\ UNCHANGED voutcome
                  ELSE /\ vpc' = "done"
                       /\ voutcome' = "first refresh"
                       /\ UNCHANGED vrequests
             ELSE /\ vpc' = "done"
                  /\ voutcome' = IF vkind = "validate_input"
                                  THEN "CannotConnect"
                                  ELSE "ConfigEntryNotReady"
                  /\ UNCHANGED vrequests
    /\ UNCHANGED <<vkind, vconfig, vclient>>
    /\ UNCHANGED <<requestVars, pollVars, serviceVars, headerVars,
                 nodeVars,
                 probeVars,
                 entryVars>>

\* the get_status of validate_input (line 72) ends: the info is returned
\* (lines 74-83), or the handlers of lines 85-93 raise
StatusForInfo ==
    /\ vpc = "status"
    /\ \E resp \in SetupAnswers :
       \E r \in {Request(StatusPath, resp)} :
          /\ vresults' = Append(vresults, r)
          /\ voutcome' \in
                IF r.kind = "return" THEN {"info"}
                ELSE IF r.kind = ApiError THEN RejectionsFor(r)
                ELSE {"CannotConnect"}
    /\ vpc' = "done"
    /\ UNCHANGED <<vkind, vconfig, vclient, vrequests>>
    /\ UNCHANGED <<requestVars, pollVars, serviceVars, headerVars,
                 nodeVars,
                 probeVars,
                 entryVars>>

SetupNext ==
    \/ ResolveAndTest
    \/ TestResponse
    \/ StatusForInfo

SpecSetup == SetupInit /\ [][SetupNext]_vars

\* the function has accepted: validate_input returned the info,
\* async_setup_entry went on to the first refresh
Accepted == voutcome \in {"info", "first refresh"}

\* the function has rejected
Rejected ==
    voutcome \in {"InvalidHost", "CannotConnect", "ConfigEntryNotReady",
                  "return False", "ValueError"}

\* the input names a host the client can be created for
HostResolved ==
    /\ ~IsRaised(ResolveHost(vconfig).port)
    /\ Truthy(ResolveHost(vconfig).host)

\* the k-th request returned
Succeeded(k) == vresults[k].kind = "return"

\* the test request returned a JSON object, as the status endpoint does
TestPassed == Succeeded(1) /\ IsDict(vresults[1].value)

\* every request sent is a GET of /api/status on the resolved host and port
OnlyStatusRequests ==
    \A k \in 1..Len(vrequests) :
        vrequests[k] = ClientRequest(ResolveHost(vconfig), "GET", StatusPath)

\* C10 as claimed: a validation of an input that names a host has sent,
\* when it ends, exactly one request, a GET of /api/status; it has rejected
\* when the request failed and accepted when it succeeded (returned the
\* status object).
C10_Original ==
    (vpc = "done" /\ HostResolved) =>
        /\ Len(vrequests) = 1
        /\ OnlyStatusRequests
        /\ TestPassed => Accepted
        /\ ~Succeeded(1) => Rejected

\* C10 as amended: without a host, or with a URL whose port cannot be read,
\* no request is sent and the setup is rejected.  With a host, one test request (GET /api/status) is sent; the
\* test passes when the request returns a JSON object, and the setup is
\* rejected when it does not pass.  After a passed test async_setup_entry
\* accepts without another validation request, and validate_input sends a
\* second GET /api/status, accepts when it returns and rejects when it
\* fails.
C10_TestThenStatus ==
    vpc = "done" =>
        /\ OnlyStatusRequests
        /\ Len(vresults) = Len(vrequests)
        /\ Accepted \/ Rejected
        /\ ~HostResolved => (vrequests = <<>> /\ Rejected)
        /\ HostResolved =>
              /\ Len(vrequests) >= 1
              /\ ~TestPassed => (Len(vrequests) = 1 /\ Rejected)
              /\ (TestPassed /\ vkind = "async_setup_entry") =>
                    (Len(vrequests) = 1 /\ Accepted)
              /\ (TestPassed /\ vkind = "validate_input") =>
                    /\ Len(vrequests) = 2
                    /\ Accepted <=> Succeeded(2)

\* validate_input has rejected after its test request passed, because the
\* second request failed
C10_Witness ==
    /\ vpc = "done" /\ vkind = "validate_input"
    /\ Len(vrequests) = 2
    /\ vresults[1] = Return(JsonLoads(StatusText).val)
    /\ vresults[2].kind = ApiError
    /\ voutcome = "InvalidHost"

\* a non-empty URL is supplied
UrlSupplied == vconfig.url \notin {Absent, JStr(<<>>)}

\* the port the URL names can be read
PortReadable == UrlSupplied => vconfig.url[3] # BadPort

\* the host the setup is to use: the URL's when a URL is supplied, the
\* host field's otherwise
ExpectedHost ==
    IF UrlSupplied THEN vconfig.url[2]
    ELSE IF vconfig.host = Absent THEN PyNone ELSE vconfig.host

\* the port of the separate field, 8585 when absent
FieldPort == IF vconfig.port = Absent THEN JNum(8585) ELSE vconfig.port

\* the host is empty: none, or the empty string
NoHost == ExpectedHost \in {PyNone, JStr(<<>>)}

\* the function has gone past the resolution of host and port
HostLookedAt == vpc # "start"

\* the client and every request sent use this host and port
Uses(host, port) ==
    /\ vclient = [host |-> host, port |-> port]
    /\ vrequests # <<>>
    /\ \A k \in 1..Len(vrequests) :
          vrequests[k].host = host /\ vrequests[k].port = port

\* without a host the setup is rejected and nothing is sent
RejectedUnsent == vpc = "done" /\ Rejected /\ vrequests = <<>>

\* C11 as claimed: once host and port are resolved (the URL's port being
\* readable), the client uses the URL's host and the port the URL names,
\* 8585 when it names none, whenever a non-empty URL is supplied, and the
\* host field and the port field, 8585 when absent, otherwise; with an
\* empty host the setup is rejected and no request is sent.
C11_Original ==
    (HostLookedAt /\ PortReadable) =>
        IF NoHost THEN RejectedUnsent
        ELSE Uses(ExpectedHost,
                  IF ~UrlSupplied THEN FieldPort
                  ELSE IF vconfig.url[3] = PyNone THEN JNum(8585)
                  ELSE vconfig.url[3])

\* C11 as amended: as claimed, except that the port is 8585 also when the
\* URL names port 0, and that a URL whose port cannot be read ends the
\* setup with a ValueError before any request is sent.
C11_UrlFirstThenFields ==
    HostLookedAt =>
        IF ~PortReadable THEN RejectedUnsent /\ voutcome = "ValueError"
        ELSE IF NoHost THEN RejectedUnsent
        ELSE Uses(ExpectedHost,
                  IF ~UrlSupplied THEN FieldPort
                  ELSE IF vconfig.url[3] \in {PyNone, JNum(0)} THEN JNum(8585)
                  ELSE vconfig.url[3])

\* a URL naming port 0 was supplied next to another host and port in the
\* separate fields: the request went to the URL's host on port 8585
C11_Witness ==
    /\ vconfig.url = ParsedUrl(TheHost, JNum(0))
    /\ vconfig.host = OtherHost /\ vconfig.port = JNum(9000)
    /\ Len(vrequests) >= 1
    /\ vrequests[1].host = TheHost /\ vrequests[1].port = JNum(8585)

\* validate_input has ended
Validated == vkind = "validate_input" /\ vpc = "done"

\* the message of the API error holds the word "timeout"
SaysTimeout(r) ==
    \/ r.msg[1] = "Timeout connecting to"
    \/ r.msg[1] = "API error" /\ IsSubstring(TimeoutWord, r.msg[3])

\* C27: in the validation of the config flow, a connection test whose
\* status request fails with an API error always yields cannot_connect;
\* invalid_host is reported only when the input names no host, or when
\* the connection test succeeded and the status request after it failed
\* with an API error whose message does not hold "timeout".
C27_CannotConnectOrInvalidHost ==
    Validated =>
        /\ (vresults # <<>> /\ vresults[1].kind = ApiError) =>
              StepUserError(voutcome) = "cannot_connect"
        /\ StepUserError(voutcome) = "invalid_host" =>
              \/ NoHost /\ vrequests = <<>>
              \/ /\ Len(vresults) = 2
                 /\ TestPassed
                 /\ vresults[2].kind = ApiError
                 /\ ~SaysTimeout(vresults[2])

\* the connection test passed and the status request after it was
\* answered with 404: invalid_host
C27_Witness ==
    /\ Validated
    /\ Len(vresults) = 2
    /\ TestPassed
    /\ vresults[2].kind = ApiError
    /\ vresults[2].msg[1] = "Endpoint not found"
    /\ StepUserError(voutcome) = "invalid_host"

-----------------------------------------------------------------------------
(* The server: what it answers on each path.  A profile fixes the answers; *)
(* at most MaxFaults requests of a poll are answered otherwise.            *)

MaxFaults == 1
MaxFailedPolls == 2

NotFound == Http(404, <<>>)

Profiles == {"full", "minimal", "mixed"}

ProfileAnswer(p, path) ==
    CASE p = "full" ->
            CASE path = StatusPath -> Http(200, BusyStatusText)
              [] path = "/api/system" -> Http(200, SystemText)
              [] path = "/api/flows" -> Http(200, FlowsText)
              [] path = "/api/libraries" -> Http(200, LibrariesText)
              [] path = "/api/nodes" -> Http(200, NodesText)
              [] path = "/api/statistics" -> Http(200, StatisticsText)
              [] path = "/api/settings" -> Http(200, StatisticsText)
              [] path = "/api/plugins" -> Http(200, PluginsText)
              [] path = "/api/files?limit=5" -> Http(200, FilesText)
              [] OTHER -> NotFound
      [] p = "minimal" ->
            CASE path = StatusPath -> Http(200, StatusText)
              [] OTHER -> NotFound
      [] p = "mixed" ->
            CASE path = StatusPath -> Http(200, StatusText)
              [] path = "/api/info" -> Http(200, SystemText)
              [] path = "/api/flows" -> Http(200, FlowsListText)
              [] path = "/api/libraries" -> Http(200, DeniedText)
              [] path = "/api/node" -> Http(200, WorkersText)
              [] path = "/api/statistics" -> Timeout
              [] path = "/api/stats" -> Http(500, OopsText)
              [] path = "/api/dashboard" -> ClientError
              [] path = "/api/settings" -> Http(200, SettingsText)
              [] path = "/api/plugins" -> Http(200, HtmlText)
              [] path = "/api/history?limit=5" -> Http(200, FilesText)
              [] OTHER -> NotFound

\* the scan interval (seconds) in the config entry of each server; a
\* timedelta of 0 seconds is falsy, so line 35 replaces it by SCAN_INTERVAL
ScanIntervalOf(p) ==
    CASE p = "full" -> 0 [] p = "minimal" -> 10 [] p = "mixed" -> 60

FaultsFor(path) ==
    IF path = StatusPath
    THEN {Timeout, ClientError, NotFound, Http(500, OopsText), Http(200, <<>>),
          Http(200, <<"7">>), Http(200, <<"[", "]">>),
          Http(200, ErrorStatusText), Http(200, OddStatusText)}
    ELSE {NotFound, Http(500, OopsText)}

\* the answers the request to path can get now
Answers(path) ==
    {ProfileAnswer(profile, path)}
        \cup (IF faults < MaxFaults THEN FaultsFor(path) ELSE {})

FaultsAfter(path, resp) ==
    IF resp = ProfileAnswer(profile, path) THEN faults ELSE faults + 1

-----------------------------------------------------------------------------
(* Spec: the coordinator polls on every tick *)

PollInit ==
    /\ profile \in Profiles
    /\ update_interval = UpdateInterval(ScanIntervalOf(profile))
    /\ published = PyNone
    /\ last_update_success = TRUE
    /\ pc = "idle"
    /\ cand = 0
    /\ data = <<>>
    /\ got = <<>>
    /\ faults = 0
    /\ failedPolls = 0
    /\ prev = <<"none", 0>>
    /\ requests = <<>>

\* the host's timer fires, or a refresh is requested: _async_update_data
\* calls get_comprehensive_data, which sends the status request
Tick ==
    /\ pc = "idle"
    /\ pc' = "status"
    /\ data' = <<>>
    /\ got' = <<>>
    /\ faults' = 0
    /\ cand' = 0
    /\ requests' = <<>>
    /\ UNCHANGED <<profile, update_interval, published, last_update_success,
                   failedPolls, prev>>
    /\ UNCHANGED <<requestVars, setupVars, serviceVars, headerVars,
                 nodeVars,
                 probeVars,
                 entryVars>>

\* the status request ends; get_system_info sends its first request
StatusResponse ==
    /\ pc = "status"
    /\ \E resp \in Answers(StatusPath) :
       \E r \in {Request(StatusPath, resp)} :
          /\ data' = StatusEntry(data, r)
          /\ got' = ("status" :> [out |-> r, last |-> r])
          /\ faults' = FaultsAfter(StatusPath, resp)
    /\ requests' = Append(requests, StatusPath)
    /\ pc' = OptionalKeys[1]
    /\ cand' = 1
    /\ UNCHANGED <<profile, update_interval, published, last_update_success,
                   failedPolls, prev>>
    /\ UNCHANGED <<requestVars, setupVars, serviceVars, headerVars,
                 nodeVars,
                 probeVars,
                 entryVars>>

StatusFailed(g) == g["status"].out.kind # "return"

\* how a snapshot looks to the history: "none", "ok" or "error"
Summary(d) ==
    IF d = PyNone THEN "none"
    ELSE IF BaseAvailable(d, TRUE) = PyTrue THEN "ok" ELSE "error"

\* a request of an optional endpoint ends: the method requests its next
\* path, or ends and the next method starts, or (after the last method)
\* get_comprehensive_data returns and the coordinator stores the snapshot
OptionalResponse ==
    /\ pc \notin {"idle", "status", "parked"}
    /\ \E resp \in Answers(Candidates(pc)[cand]) :
       \E step \in {MethodStep(pc, cand, resp)} :
          LET merged == Merge(data, pc, step.out)
              ended == UpdateData(Return(JObj(merged)))
          IN  /\ faults' = FaultsAfter(Candidates(pc)[cand], resp)
              /\ requests' = Append(requests, Candidates(pc)[cand])
              /\ IF step.next > 0
                 THEN /\ cand' = step.next
                      /\ UNCHANGED <<pc, data, got, published,
                                     last_update_success, failedPolls, prev>>
                 ELSE /\ got' = (pc :> [out |-> step.out, last |-> step.last])
                                    @@ got
                      /\ pc' = After(pc, step.out)
                      /\ IF pc' # "idle"
                         THEN /\ cand' = 1
                              /\ data' = merged
                              /\ UNCHANGED <<published, last_update_success,
                                             failedPolls, prev>>
                         ELSE /\ cand' = 0
                              /\ data' = <<>>
                              /\ published' = DataAfter(published, ended)
                              /\ last_update_success' = SuccessAfter(ended)
                              /\ failedPolls' =
                                    IF StatusFailed(got)
                                    THEN (IF failedPolls < MaxFailedPolls
                                          THEN failedPolls + 1
                                          ELSE failedPolls)
                                    ELSE 0
                              /\ prev' = <<Summary(published), failedPolls>>
    /\ UNCHANGED <<profile, update_interval>>
    /\ UNCHANGED <<requestVars, setupVars, serviceVars, headerVars,
                 nodeVars,
                 probeVars,
                 entryVars>>

Next ==
    \/ Tick
    \/ StatusResponse
    \/ OptionalResponse

Init ==
    /\ PollInit
    /\ RequestParked
    /\ SetupParked
    /\ ServiceParked
    /\ HeaderParked
    /\ NodeParked
    /\ ProbeParked
    /\ EntryParked

Spec == Init /\ [][Next]_vars

-----------------------------------------------------------------------------
(* Properties of a poll *)

\* a poll has ended and the coordinator has stored what it returned
PollDone == pc = "idle" /\ DOMAIN got # {}

\* the status request of the poll returned a payload
StatusReturned == got["status"].out.kind = "return"

\* the status request of the poll was answered with the HTTP status st
StatusAnswered(st) ==
    /\ got["status"].out.kind = ApiError
    /\ got["status"].out.msg[1] = "API error"
    /\ got["status"].out.msg[2] = st

\* the last request of the method of key was answered with 404
NotFoundFor(key) ==
    /\ got[key].last.kind = ApiError
    /\ got[key].last.msg[1] = "Endpoint not found"

\* the entity reports the same availability and value on both snapshots
SameReport(e, d1, d2) ==
    /\ Available(e, d1, last_update_success)
          = Available(e, d2, last_update_success)
    /\ State(e, d1, last_update_success) = State(e, d2, last_update_success)

\* C1: whenever the status request of a poll returns, the snapshot the poll
\* publishes holds the returned payload unchanged under "status", whatever
\* the optional endpoint methods of the same poll returned.
C1_StatusPayloadPublished ==
    (PollDone /\ StatusReturned) =>
        /\ published # PyNone
        /\ "status" \in DOMAIN published[2]
        /\ published[2]["status"] = got["status"].out.value

\* a poll whose status request returned the server's status payload while
\* some optional methods were stored and others were not
C1_Witness ==
    /\ PollDone /\ StatusReturned
    /\ got["status"].out.value = JsonLoads(StatusText).val
    /\ DictGet(published[2]["status"], "queue", PyNone) = JNum(3)
    /\ "system_info" \in DOMAIN published[2]
    /\ "libraries" \notin DOMAIN published[2]
    /\ \E key \in DOMAIN got : got[key].last.kind = ApiError

\* C2: when the status endpoint answers a poll with HTTP 500, the published
\* snapshot's status entry carries an error, the status binary sensor is
\* off, and the queue, processing, processed and processing-files sensors
\* are unavailable.
C2_Status500Degrades ==
    (PollDone /\ StatusAnswered(500)) =>
        /\ published # PyNone
        /\ "status" \in DOMAIN published[2]
        /\ IsDict(published[2]["status"])
        /\ "error" \in DOMAIN published[2]["status"][2]
        /\ State("status", published, last_update_success) = PyFalse
        /\ \A e \in {"queue", "processing", "processed", "processing_files"} :
              Available(e, published, last_update_success) = PyFalse

\* a poll whose status request was answered with 500 has ended after a poll
\* that published a healthy snapshot
C2_Witness ==
    /\ PollDone /\ StatusAnswered(500)
    /\ prev[1] = "ok"
    /\ last_update_success

\* the snapshot of the poll had the flows method returned a flows payload
AsIfFlowsReturned ==
    ComprehensiveData(
        [got EXCEPT !["flows"] = [out |-> Return(JsonLoads(FlowsText).val),
                                  last |-> Return(JsonLoads(FlowsText).val)]])

\* C3: when /api/flows is answered with 404 while the status request
\* succeeds, the poll publishes a snapshot, the flow count sensor is
\* unavailable, and every other entity reports the availability and the
\* value it would report had the flows request succeeded.
C3_FlowsNotFoundIsolated ==
    (PollDone /\ StatusReturned /\ NotFoundFor("flows")) =>
        /\ published # PyNone
        /\ Available("flows", published, last_update_success) = PyFalse
        /\ \A e \in Entities \ {"flows"} :
              SameReport(e, published, AsIfFlowsReturned)

\* C3, for the status payloads on which the entities can evaluate
\* "error" in payload: objects, arrays and strings
C3_HoldsForContainers ==
    (PollDone /\ StatusReturned /\ NotFoundFor("flows")
        /\ InRaises(got["status"].out.value) = NoException) =>
        /\ published # PyNone
        /\ Available("flows", published, last_update_success) = PyFalse
        /\ \A e \in Entities \ {"flows"} :
              SameReport(e, published, AsIfFlowsReturned)

\* C8 as claimed: a poll whose status request failed leaves the published
\* snapshot as it was.
C8_Original ==
    [][(pc # "idle" /\ pc' = "idle" /\ published # PyNone
            /\ StatusFailed(got'))
        => published' = published]_vars

\* C8 as amended: every poll that ends replaces the published snapshot by
\* the dict it assembled and the refresh counts as successful; when its
\* status request failed, the status entry of the new snapshot is the error
\* marker holding the failure's message.
C8_EveryPollReplaces ==
    PollDone =>
        /\ published = ComprehensiveData(got)
        /\ last_update_success
        /\ StatusFailed(got) =>
              published[2]["status"]
                  = JObj("error" :> StrOf(got["status"].out))

\* a poll whose status request failed has replaced a healthy snapshot by
\* an error-marked one
C8_Witness ==
    /\ PollDone /\ StatusFailed(got)
    /\ prev[1] = "ok"
    /\ Summary(published) = "error"
    /\ "nodes" \in DOMAIN published[2]

\* the status payload is found to carry no error: an object without an
\* "error" member, or an array or a string that does not contain "error"
ErrorFree(v) == InRaises(v) = NoException /\ ~In(ErrorWord, v)

\* the status binary sensor is on and the status-derived sensors are
\* available
Recovered ==
    /\ published # PyNone
    /\ State("status", published, last_update_success) = PyTrue
    /\ \A e \in StatusSensors :
          Available(e, published, last_update_success) = PyTrue

\* C9 as claimed: after failed polls, the first poll whose status request
\* succeeds (returns an object or an array) publishes an error-free
\* snapshot: the status binary sensor is on and the status-derived sensors
\* are available.
C9_Original ==
    (PollDone /\ prev[2] >= 1 /\ StatusReturned
        /\ got["status"].out.value[1] \in {"obj", "arr"}) => Recovered

\* C9 as amended: a failed poll never halts the schedule (whenever no poll
\* is running the next tick can start one, with the interval unchanged),
\* and after any number of failed polls the first poll whose status request
\* returns a payload that carries no error publishes it, so that the status
\* binary sensor is on and the status-derived sensors are available; a
\* returned payload that carries an "error" member leaves them off and
\* unavailable.
C9_RecoversOnNextTick ==
    /\ update_interval = UpdateInterval(ScanIntervalOf(profile))
    /\ pc = "idle" => ENABLED Tick
    /\ (PollDone /\ prev[2] >= 1 /\ StatusReturned) =>
          /\ ErrorFree(got["status"].out.value) => Recovered
          /\ (IsDict(got["status"].out.value)
                /\ "error" \in DOMAIN got["status"].out.value[2]) =>
                /\ State("status", published, last_update_success) = PyFalse
                /\ \A e \in StatusSensors :
                      Available(e, published, last_update_success) = PyFalse

\* after the most failed polls in a row the model counts, a poll whose
\* status request returned the server's payload has made the sensors
\* available again
C9_Witness ==
    /\ PollDone /\ prev = <<"error", MaxFailedPolls>>
    /\ StatusReturned /\ ErrorFree(got["status"].out.value)
    /\ failedPolls = 0
    /\ Recovered
    /\ State("queue", published, last_update_success) = JNum(3)

StatusFields == {"queue", "processing", "processed", "time"}

\* the status request of the poll returned an object that has the four
\* members and is no error payload (has no "error" member)
ReturnedStatusFields ==
    /\ StatusReturned
    /\ IsDict(got["status"].out.value)
    /\ StatusFields \subseteq DOMAIN got["status"].out.value[2]
    /\ "error" \notin DOMAIN got["status"].out.value[2]

AllAnswered(g) ==
    DOMAIN g = {"status"} \cup {OptionalKeys[i] : i \in 1..Len(OptionalKeys)}

\* C15: while a poll runs coordinator.data stays what it was, however far
\* the new snapshot is assembled; it changes only in the step that ends
\* the poll, and then to the complete result of that poll (the status
\* entry and the entry of every optional endpoint that answered).
C15_PublishedAtOnce ==
    [][/\ pc' # "idle" => published' = published
       /\ published' # published =>
             /\ pc # "idle" /\ pc' = "idle"
             /\ AllAnswered(got')
             /\ published' = ComprehensiveData(got')]_vars

\* a poll is under way after an earlier one: the dict being assembled has
\* the new status entry and one optional entry, and coordinator.data is
\* still the larger snapshot of the earlier poll, with the earlier status
C15_Witness ==
    /\ pc = OptionalKeys[3]
    /\ DOMAIN data = {"status", "system_info"}
    /\ published # PyNone
    /\ DOMAIN data \subseteq DOMAIN published[2]
    /\ DOMAIN data # DOMAIN published[2]
    /\ published[2]["status"] # data["status"]

\* the keys of the optional endpoints
OptionalKeySet == {OptionalKeys[i] : i \in 1..Len(OptionalKeys)}

\* the last request of the method of key returned a payload
EndpointSucceeded(key) == got[key].last.kind = "return"

\* a JSON object without a truthy "error" member
Usable(v) == IsDict(v) /\ ~Truthy(DictGet(v, "error", JNull))

\* the first path of the method of key was requested in the poll
Requested(key) ==
    \E i \in 1..Len(requests) : requests[i] = Candidates(key)[1]

\* a request of the poll failed: more requests ended than methods got an
\* answer
ARequestFailed ==
    Len(requests) > Cardinality({k \in DOMAIN got : EndpointSucceeded(k)})

\* the published snapshot holds under key what the endpoint answered
Included(key) ==
    /\ key \in DOMAIN published[2]
    /\ published[2][key] = got[key].last.value

\* C22 as stated: in a poll with a failed request every endpoint is still
\* requested and the result of every endpoint that succeeded is in the
\* published snapshot.
C22_Original ==
    (PollDone /\ ARequestFailed) =>
        /\ requests[1] = StatusPath
        /\ \A key \in OptionalKeySet : Requested(key)
        /\ \A key \in OptionalKeySet \cup {"status"} :
              EndpointSucceeded(key) => Included(key)

\* C22: a timeout or other failure of a request of a poll fails only that
\* request: every endpoint that comes later is still requested, and the
\* published snapshot holds the status payload when the status request
\* succeeded and the result of every optional endpoint that answered with
\* a JSON object without a truthy "error" member, also when the failing
\* request is the status request.
C22_FailureIsolated ==
    (PollDone /\ ARequestFailed) =>
        /\ requests[1] = StatusPath
        /\ \A key \in OptionalKeySet : Requested(key)
        /\ EndpointSucceeded("status") => Included("status")
        /\ \A key \in OptionalKeySet :
              (EndpointSucceeded(key) /\ Usable(got[key].last.value))
                 => Included(key)

\* the status request timed out, every optional endpoint was requested
\* after it, and the flows and the system information that answered are
\* published
C22_Witness ==
    /\ PollDone
    /\ got["status"].last.kind = ApiError
    /\ got["status"].last.msg[1] = "Timeout connecting to"
    /\ \A key \in OptionalKeySet : Requested(key)
    /\ EndpointSucceeded("flows") /\ Included("flows")
    /\ EndpointSucceeded("system_info") /\ Included("system_info")

\* an object whose "error" member is a message
ErrorMarker(v) ==
    /\ IsDict(v)
    /\ "error" \in DOMAIN v[2]
    /\ IsStr(v[2]["error"])

\* C23: whatever the server answers, a poll never signals an update
\* failure to the host: every poll that ends has returned a snapshot, which
\* the host stored, and every published snapshot is a dict with the key
\* "status", holding the status payload when the status request returned
\* one and else an object with an "error" message.
C23_AlwaysASnapshot ==
    /\ published # PyNone =>
          /\ IsDict(published)
          /\ "status" \in DOMAIN published[2]
    /\ PollDone =>
          /\ last_update_success
          /\ published # PyNone
          /\ IF StatusReturned
             THEN published[2]["status"] = got["status"].out.value
             ELSE ErrorMarker(published[2]["status"])

\* every request of a poll failed, one of them by a timeout, and the poll
\* published a snapshot that holds the error marker of the status alone
C23_Witness ==
    /\ PollDone
    /\ \A key \in DOMAIN got : ~EndpointSucceeded(key)
    /\ got["status"].last.msg[1] = "Timeout connecting to"
    /\ last_update_success
    /\ DOMAIN published[2] = {"status"}
    /\ ErrorMarker(published[2]["status"])

\* C24: a published snapshot contains the key of an optional endpoint if
\* and only if the call of that endpoint in the same poll returned a JSON
\* object without a truthy "error" member, and then holds that object; a
\* call that was answered with a JSON array, or with an object carrying a
\* truthy "error", leaves the key absent although its request succeeded.
C24_KeyIffUsableObject ==
    PollDone =>
        \A key \in OptionalKeySet :
            /\ key \in DOMAIN published[2]
                  <=> /\ got[key].out.kind = "return"
                      /\ Usable(got[key].out.value)
            /\ key \in DOMAIN published[2] =>
                  published[2][key] = got[key].out.value
            /\ (EndpointSucceeded(key) /\ ~Usable(got[key].last.value)) =>
                  key \notin DOMAIN published[2]

\* /api/flows answered with an array and /api/libraries with an object
\* whose "error" is a text: both keys are absent; /api/settings answered
\* with an object whose "error" is null: the key is present
C24_Witness ==
    /\ PollDone
    /\ EndpointSucceeded("flows") /\ IsList(got["flows"].last.value)
    /\ "flows" \notin DOMAIN published[2]
    /\ EndpointSucceeded("libraries")
    /\ IsDict(got["libraries"].last.value)
    /\ "error" \in DOMAIN got["libraries"].last.value[2]
    /\ "libraries" \notin DOMAIN published[2]
    /\ "settings" \in DOMAIN published[2]
    /\ "error" \in DOMAIN published[2]["settings"][2]

\* the endpoint calls of a poll in the order the claim lists them
ListedOrder ==
    <<"status", "system_info", "flows", "libraries", "nodes", "statistics",
      "settings", "plugins", "file_history">>

\* the paths the call at position k of the list requests, in order
PathsOfCall(k) ==
    IF k = 1 THEN <<StatusPath>> ELSE Candidates(ListedOrder[k])

\* <<k, i>>: the i-th path of the k-th call
Positions ==
    UNION {{<<k, i>> : i \in 1..Len(PathsOfCall(k))} :
              k \in 1..Len(ListedOrder)}

PolledPaths == {PathsOfCall(ki[1])[ki[2]] : ki \in Positions}

\* the call that requests a path, and the path's place among its paths
PositionOf ==
    [path \in PolledPaths |->
        CHOOSE ki \in Positions : PathsOfCall(ki[1])[ki[2]] = path]

\* C29: within a poll the requests are issued one after the other, call
\* by call in the fixed order status, system_info, flows, libraries,
\* nodes, statistics, settings, plugins, file_history: each request is the
\* next path of the same call or the first path of the next call, so no
\* path is requested twice; a poll that has ended made every call and
\* sent at least 9 and at most 19 requests.
C29_FixedOrder ==
    /\ \A i \in 1..Len(requests) : requests[i] \in PolledPaths
    /\ requests # <<>> => PositionOf[requests[1]] = <<1, 1>>
    /\ \A i \in 1..(Len(requests) - 1) :
          \E a \in {PositionOf[requests[i]]} :
          \E b \in {PositionOf[requests[i + 1]]} :
             \/ b = <<a[1], a[2] + 1>>
             \/ b = <<a[1] + 1, 1>>
    /\ PollDone =>
          /\ PositionOf[requests[Len(requests)]][1] = Len(ListedOrder)
          /\ Len(requests) >= 9
          /\ Len(requests) <= 19

\* a poll against a server that knows the status path alone ended after
\* 19 requests
C29_Witness ==
    /\ PollDone
    /\ Len(requests) = 19
    /\ requests[1] = StatusPath
    /\ requests[2] = "/api/system"
    /\ requests[19] = "/api/file-history?limit=5"

-----------------------------------------------------------------------------
(* The services pause_processing, resume_processing and force_refresh      *)
(* (__init__.py lines 143-185) and the commands of the client they call    *)
(* (api.py lines 223-235)                                                  *)

MaxCalls == 2

PausePath == "/api/pause"
ResumePath == "/api/resume"

Services == {"pause_processing", "resume_processing", "force_refresh"}

\* the path pause_processing and resume_processing post to
CommandPath(service) ==
    IF service = "pause_processing" THEN PausePath ELSE ResumePath

\* what the log keeps of the n-th call: a request sent, the command ended
\* with result r, coordinator.async_request_refresh() called
SentEvent(n, who, method, path) ==
    [call |-> n, who |-> who, what |-> "request", arg |-> <<method, path>>]
EndedEvent(n, who, r) == [call |-> n, who |-> who, what |-> "ended", arg |-> r]
RefreshEvent(n, who) ==
    [call |-> n, who |-> who, what |-> "async_request_refresh", arg |-> <<>>]

\* who acts: a service handler, or a method of the switch of node uid
ServiceHandler(service) == <<service, "server">>

\* the nodes an EnabledNodeSwitch exists for (switch.py lines 12-15)
NodeUids == {"n1", "n2"}

\* a call of the switch of node uid: async_turn_on or async_turn_off
SwitchCall(method, uid) == <<method, uid>>

Last(seq) == seq[Len(seq)]
SwitchCalls ==
    {SwitchCall(m, uid) : m \in {"async_turn_on", "async_turn_off"},
                          uid \in NodeUids}

\* switch.py lines 33-37: the state async_turn_on and async_turn_off set
IsEnabledFor(method) == method = "async_turn_on"

\* the request of the client's set-node-state command:
\* PUT /api/node/state/{uid}?enable={bool}
NodeStatePath(uid, enable) == <<"/api/node/state/", uid, "?enable=", enable>>

\* the set-node-state command, given how its request ended: it returns the
\* payload or fails with the API error
SetNodeState(r) == r

\* the refresh is requested however the command ended
SwitchRefreshesAlways(res) == TRUE

\* switch.py lines 39-41: the refresh is awaited after the command, so it
\* is reached only when the command did not raise
SwitchRefreshes(res) == res.kind = "return"

\* pause_processing and resume_processing (api.py lines 223-235), given
\* how _request ended
Command(r) ==
    IF r.kind = ApiError
    THEN Return(JObj("success" :> PyFalse @@ "error" :> StrOf(r)))
    ELSE r

\* the handler requests the refresh whatever the command reported
RefreshesAfterAnyResult(res) == res.kind = "return"

\* __init__.py lines 147-154 (and 159-166): the handler goes on to the
\* refresh when result.get("success", True) is true; an exception of the
\* command or of the get is logged by the except branch
RefreshesAfter(res) ==
    /\ res.kind = "return"
    /\ IsDict(res.value)
    /\ Truthy(DictGet(res.value, "success", PyTrue))

\* what the server may answer to the POST of a command
CommandAnswers ==
    {Http(200, SuccessText), Http(200, FailureText), Http(200, <<"{", "}">>),
     Http(200, NullSuccessText), Http(200, <<"[", "]">>), Http(200, <<"7">>),
     Http(200, <<>>), Http(404, <<>>), Http(500, OopsText), Timeout,
     ClientError}

ServiceInit ==
    /\ call = <<"none", "none">>
    /\ cpc = "idle"
    /\ ncalls = 0
    /\ events = <<>>
    /\ RequestParked
    /\ PollParked
    /\ SetupParked
    /\ HeaderParked
    /\ NodeParked
    /\ ProbeParked
    /\ EntryParked

\* a service is called.  force_refresh_service (lines 168-174) requests the
\* refresh; the other two handlers call the command, which posts
CallService ==
    /\ cpc = "idle"
    /\ ncalls < MaxCalls
    /\ ncalls' = ncalls + 1
    /\ \E s \in Services :
          /\ call' = ServiceHandler(s)
          /\ IF s = "force_refresh"
             THEN /\ events' = Append(events, RefreshEvent(ncalls', call'))
                  /\ cpc' = "idle"
             ELSE /\ events' =
                        Append(events,
                               SentEvent(ncalls', call', "POST",
                                         CommandPath(s)))
                  /\ cpc' = "posted"
    /\ UNCHANGED <<requestVars, pollVars, setupVars, headerVars, nodeVars,
                 probeVars,
                 entryVars>>

\* the request of the command ends and the handler runs to its end
CommandResponse ==
    /\ cpc = "posted"
    /\ \E resp \in CommandAnswers :
       \E r \in {Command(Request(CommandPath(call[1]), resp))} :
          events' =
              events \o <<EndedEvent(ncalls, call, r)>>
                     \o (IF RefreshesAfter(r)
                         THEN <<RefreshEvent(ncalls, call)>> ELSE <<>>)
    /\ cpc' = "idle"
    /\ UNCHANGED <<call, ncalls>>
    /\ UNCHANGED <<requestVars, pollVars, setupVars, headerVars, nodeVars,
                 probeVars,
                 entryVars>>

\* a switch is turned on or off: async_set_state (switch.py lines 39-40)
\* calls the set-node-state command for the entity's node
TurnSwitch ==
    /\ cpc = "idle"
    /\ ncalls < MaxCalls
    /\ ncalls' = ncalls + 1
    /\ \E c \in SwitchCalls :
          /\ call' = c
          /\ events' =
                Append(events,
                       SentEvent(ncalls', c, "PUT",
                                 NodeStatePath(c[2], IsEnabledFor(c[1]))))
    /\ cpc' = "put"
    /\ UNCHANGED <<requestVars, pollVars, setupVars, headerVars, nodeVars,
                 probeVars,
                 entryVars>>

\* the request of the set-node-state command ends; async_set_state goes
\* on to the refresh (line 41) or the exception leaves it
SwitchResponse ==
    /\ cpc = "put"
    /\ \E resp \in CommandAnswers :
       \E r \in {SetNodeState(Request(Last(events).arg[2], resp))} :
          events' =
              events \o <<EndedEvent(ncalls, call, r)>>
                     \o (IF SwitchRefreshes(r)
                         THEN <<RefreshEvent(ncalls, call)>> ELSE <<>>)
    /\ cpc' = "idle"
    /\ UNCHANGED <<call, ncalls>>
    /\ UNCHANGED <<requestVars, pollVars, setupVars, headerVars, nodeVars,
                 probeVars,
                 entryVars>>

ServiceNext ==
    \/ CallService
    \/ CommandResponse
    \/ TurnSwitch
    \/ SwitchResponse

SpecService == ServiceInit /\ [][ServiceNext]_vars

\* what the log holds of the n-th call, in order
EventsOf(n) ==
    LET OfCall(e) == e.call = n IN SelectSeq(events, OfCall)

\* the n-th call is a call of a service
OfService(n) == EventsOf(n)[1].who[2] = "server"

\* the n-th call has been handled to its end
Handled(n) == n < ncalls \/ (n = ncalls /\ cpc = "idle")

\* what the events of a call tell, in order
Whats(es) == [i \in 1..Len(es) |-> es[i].what]

\* the n-th call, of pause_processing or resume_processing, posted its
\* command once to its own path before anything else
PostedFirst(n) ==
    /\ EventsOf(n) # <<>>
    /\ EventsOf(n)[1] =
          SentEvent(n, EventsOf(n)[1].who, "POST",
                    CommandPath(EventsOf(n)[1].who[1]))

\* the result the command of the n-th call ended with
ResultOf(n) == EventsOf(n)[2].arg

\* the result reports success = false
ReportsFailure(v) ==
    IsDict(v) /\ "success" \in DOMAIN v[2] /\ v[2]["success"] = PyFalse

\* the result is an object whose success member is absent or true in the
\* sense of Python (not false, null, 0 or empty)
ReportsSuccess(v) ==
    /\ IsDict(v)
    /\ "success" \in DOMAIN v[2] => Truthy(v[2]["success"])

\* the shape of the log of one call: force_refresh requests the refresh;
\* a command call posts, and when it has ended requests the refresh, after
\* the end of the command, exactly when refreshes(result) holds
CallShape(n, refreshes(_)) ==
    IF EventsOf(n)[1].who[1] = "force_refresh"
    THEN Whats(EventsOf(n)) = <<"async_request_refresh">>
    ELSE /\ PostedFirst(n)
         /\ IF ~Handled(n) THEN Whats(EventsOf(n)) = <<"request">>
            ELSE IF refreshes(ResultOf(n))
            THEN Whats(EventsOf(n)) =
                    <<"request", "ended", "async_request_refresh">>
            ELSE Whats(EventsOf(n)) = <<"request", "ended">>

\* the command of the n-th call ended with a JSON object or failed
EndedWithObject(n) ==
    (Handled(n) /\ Len(EventsOf(n)) >= 2) => IsDict(ResultOf(n).value)

NotReportedFailed(r) == r.kind = "return" /\ ~ReportsFailure(r.value)
ReportedSucceeded(r) == r.kind = "return" /\ ReportsSuccess(r.value)

\* C12 as claimed: a force_refresh call requests a refresh; a pause or
\* resume call posts its command and requests a refresh, after the command
\* has ended and never before, exactly when the command's result (an
\* object, or the failure object of an API error) does not report
\* success = false.
C12_Original ==
    \A n \in 1..ncalls :
        (OfService(n) /\ EndedWithObject(n)) =>
            CallShape(n, NotReportedFailed)

\* C12 as amended: as claimed, except that the refresh is requested
\* exactly when the command returned a JSON object whose success member is
\* absent or true in the sense of Python; no refresh is requested after a
\* result whose success member is false, null, 0 or empty, after a result
\* that is no object, or after an API error.
C12_RefreshAfterSuccess ==
    \A n \in 1..ncalls : OfService(n) => CallShape(n, ReportedSucceeded)

\* a pause whose command answered {"success":true} was followed by its
\* refresh, and a resume whose command answered {"success":null} by none
C12_Witness ==
    /\ ncalls = 2 /\ cpc = "idle"
    /\ EventsOf(1)[1].who = ServiceHandler("pause_processing")
    /\ ResultOf(1) = Return(JsonLoads(SuccessText).val)
    /\ Len(EventsOf(1)) = 3
    /\ EventsOf(2)[1].who = ServiceHandler("resume_processing")
    /\ ResultOf(2) = Return(JsonLoads(NullSuccessText).val)
    /\ Len(EventsOf(2)) = 2

\* C17: a call of async_turn_on (async_turn_off) of the switch of a node
\* sends the set-node-state command for that node's UID with enable true
\* (false) before anything else; coordinator.async_request_refresh() is
\* called after the command has ended, exactly when it ended without an
\* error, and never while it is outstanding.
C17_SwitchSetsThenRefreshes ==
    \A n \in 1..ncalls :
        ~OfService(n) =>
            /\ EventsOf(n)[1].what = "request"
            /\ \E uid \in NodeUids :
                  \/ /\ EventsOf(n)[1].who = SwitchCall("async_turn_on", uid)
                     /\ EventsOf(n)[1].arg =
                           <<"PUT", NodeStatePath(uid, TRUE)>>
                  \/ /\ EventsOf(n)[1].who = SwitchCall("async_turn_off", uid)
                     /\ EventsOf(n)[1].arg =
                           <<"PUT", NodeStatePath(uid, FALSE)>>
            /\ IF ~Handled(n) THEN Whats(EventsOf(n)) = <<"request">>
               ELSE IF ResultOf(n).kind = "return"
               THEN Whats(EventsOf(n)) =
                       <<"request", "ended", "async_request_refresh">>
               ELSE /\ ResultOf(n).kind = ApiError
                    /\ Whats(EventsOf(n)) = <<"request", "ended">>

\* the switch of n2 was turned off, the command succeeded and the refresh
\* followed; then the switch of n1 was turned on, the command failed and
\* no refresh was requested
C17_Witness ==
    /\ ncalls = 2 /\ cpc = "idle"
    /\ EventsOf(1)[1].who = SwitchCall("async_turn_off", "n2")
    /\ ResultOf(1).kind = "return"
    /\ Whats(EventsOf(1)) = <<"request", "ended", "async_request_refresh">>
    /\ EventsOf(2)[1].who = SwitchCall("async_turn_on", "n1")
    /\ ResultOf(2).kind = ApiError
    /\ Whats(EventsOf(2)) = <<"request", "ended">>

-----------------------------------------------------------------------------
(* The headers of a request (api.py lines 59-74)                           *)

NoHeaders == <<"none">>
Headers(h) == <<"headers", h>>

\* f"Bearer {self.api_key}", for a str
Bearer(key) == JStr(<<"B", "e", "a", "r", "e", "r", " ">> \o key[2])

ApplicationJson == Literal("application/json")

\* the values of client.api_key: none, the empty str, a token
ApiKeys == {PyNone, JStr(<<>>), JStr(<<"k", "1">>)}

\* the headers a caller may pass: any of these names with any of these
\* values
SuppliedHeaders ==
    UNION {[names -> {Literal("text/html"), Bearer(JStr(<<"o">>))}] :
             names \in SUBSET {"Authorization", "Accept", "accept", "X-Trace"}}

\* the caller's headers win over the client's
RequestHeadersYielding(key, given) ==
    given @@ (IF Truthy(key) THEN "Authorization" :> Bearer(key) ELSE <<>>)
          @@ ("Accept" :> ApplicationJson
              @@ "Content-Type" :> ApplicationJson)

\* api.py lines 59-67: the dict handed to session.request
RequestHeaders(key, given) ==
    ("Accept" :> ApplicationJson @@ "Content-Type" :> ApplicationJson)
        @@ (IF Truthy(key) THEN "Authorization" :> Bearer(key) ELSE <<>>)
        @@ given

HeaderInit ==
    /\ api_key \in ApiKeys
    /\ supplied \in SuppliedHeaders
    /\ sent = NoHeaders
    /\ RequestParked
    /\ PollParked
    /\ SetupParked
    /\ ServiceParked
    /\ NodeParked
    /\ ProbeParked
    /\ EntryParked

\* _request builds the headers and hands them to session.request
SendRequest ==
    /\ sent = NoHeaders
    /\ sent' = Headers(RequestHeaders(api_key, supplied))
    /\ UNCHANGED <<api_key, supplied>>
    /\ UNCHANGED <<requestVars, pollVars, setupVars, serviceVars, nodeVars,
                 probeVars,
                 entryVars>>

SpecHeaders == HeaderInit /\ [][SendRequest]_vars

\* the request carries the header name with this value
Carries(name, value) ==
    name \in DOMAIN sent[2] /\ sent[2][name] = value

\* C14: every request carries Accept: application/json whatever headers
\* the caller passed; when a non-empty token is configured it carries
\* Authorization: Bearer <token> whatever the caller passed, and when none
\* is configured the client adds no Authorization header (the request has
\* one only if the caller passed it, with the caller's value).
C14_HeadersSet ==
    sent # NoHeaders =>
        /\ Carries("Accept", ApplicationJson)
        /\ api_key = JStr(<<"k", "1">>) =>
              Carries("Authorization",
                      JStr(<<"B", "e", "a", "r", "e", "r", " ", "k", "1">>))
        /\ api_key \in {PyNone, JStr(<<>>)} =>
              IF "Authorization" \in DOMAIN supplied
              THEN Carries("Authorization", supplied["Authorization"])
              ELSE "Authorization" \notin DOMAIN sent[2]

\* a caller passed its own Accept and Authorization to a client that has a
\* token, and the request went out with the client's two headers
C14_Witness ==
    /\ sent # NoHeaders
    /\ api_key = JStr(<<"k", "1">>)
    /\ {"Accept", "Authorization"} \subseteq DOMAIN supplied
    /\ supplied["Accept"] = Literal("text/html")
    /\ Carries("Accept", ApplicationJson)
    /\ Carries("Authorization", Bearer(api_key))

-----------------------------------------------------------------------------
(* The entities of a node (entity.py lines 35-67, sensors_nodes.py)        *)

MaxCode == 8

\* the codes a node descriptor may carry
Codes == (0 - MaxCode)..MaxCode

\* entity.py lines 42-44: the descriptor of the entity's node
NodeData(list, uid) ==
    list[CHOOSE i \in 1..Len(list) :
            /\ list[i][2]["Uid"] = uid
            /\ \A j \in 1..(i - 1) : list[j][2]["Uid"] # uid]

\* int(v), for the values a descriptor holds
PyInt(v) ==
    CASE v[1] = "num" -> v[2]
      [] v[1] = "bool" -> IF v[2] THEN 1 ELSE 0

\* __raw_value of the three sensors: int(self._data.get(key))
RawValue(list, uid, key) == PyInt(DictGet(NodeData(list, uid), key, PyNone))

\* the second test of 4 tests the code 5
StatusLabelWithMismatch(raw) ==
    IF raw = 0 THEN "Offline"
    ELSE IF raw = 1 THEN "Idle"
    ELSE IF raw = 2 THEN "Processing"
    ELSE IF raw = 3 THEN "Disabled"
    ELSE IF raw = 4 THEN "Out of Schedule"
    ELSE IF raw = 5 THEN "Version Mismatch"
    ELSE "Unknown"

\* StatusNodeSensor.native_value (sensors_nodes.py lines 33-47)
StatusLabel(raw) ==
    IF raw = 0 THEN "Offline"
    ELSE IF raw = 1 THEN "Idle"
    ELSE IF raw = 2 THEN "Processing"
    ELSE IF raw = 3 THEN "Disabled"
    ELSE IF raw = 4 THEN "Out of Schedule"
    ELSE IF raw = 4 THEN "Version Mismatch"
    ELSE "Unknown"

\* OperatingSystemNodeSensor.native_value (lines 64-76)
OperatingSystemLabel(raw) ==
    IF raw = 1 THEN "Windows"
    ELSE IF raw = 2 THEN "Linux"
    ELSE IF raw = 3 THEN "Mac"
    ELSE IF raw = 4 THEN "Docker"
    ELSE IF raw = 5 THEN "FreeBSD"
    ELSE "Unknown"

\* ArchitectureNodeSensor.native_value (lines 103-113)
ArchitectureLabel(raw) ==
    IF raw = 1 THEN "x86"
    ELSE IF raw = 2 THEN "x64"
    ELSE IF raw = 3 THEN "Arm32"
    ELSE IF raw = 4 THEN "Arm64"
    ELSE "Unknown"

DEFAULT_CONNECTED_LAST_SEEN_TIMESPAN == 5

\* the setting is not read: the default is used
ConfiguredTimespanDefault(config) == DEFAULT_CONNECTED_LAST_SEEN_TIMESPAN

\* __init__.py line 136: the connected_last_seen_timespan of the entry,
\* in minutes
ConfiguredTimespan(config) ==
    IF "connected_last_seen_timespan" \in DOMAIN config
    THEN config["connected_last_seen_timespan"]
    ELSE DEFAULT_CONNECTED_LAST_SEEN_TIMESPAN

\* the connectivity binary sensor of a node: on while the node was last
\* seen no longer ago than the timespan (minutes); times are in seconds
ConnectedNode(list, uid, now, minutes) ==
    now - PyInt(DictGet(NodeData(list, uid), "LastSeen", PyNone))
        <= minutes * 60

\* a node descriptor: the same code under the three keys
Node(uid, code, last_seen) ==
    JObj("Uid" :> uid @@ "Status" :> JNum(code)
         @@ "OperatingSystem" :> JNum(code) @@ "Architecture" :> JNum(code)
         @@ "LastSeen" :> JNum(last_seen))

\* how long ago (seconds) the node may have been seen
Elapsed == {0, 60, 299, 300, 301, 600}

NodeInit ==
    /\ clock = 86400
    /\ \E code \in Codes, ago \in Elapsed, other \in {0, 86400} :
          node_data = JArr(<<Node("n1", code, clock - ago),
                         Node("n2", 1, other)>>)
    /\ entity \in NodeUids
    /\ settings \in
          {<<>>} \cup {("connected_last_seen_timespan" :> m) : m \in {1, 5, 10}}
    /\ shown = <<"none">>
    /\ RequestParked
    /\ PollParked
    /\ SetupParked
    /\ ServiceParked
    /\ HeaderParked
    /\ ProbeParked
    /\ EntryParked

\* the host reads the state of the entities of the node
ReadNode ==
    /\ shown = <<"none">>
    /\ shown' =
          <<"shown",
            [status |-> StatusLabel(RawValue(node_data[2], entity, "Status")),
             operating_system |->
                 OperatingSystemLabel(
                     RawValue(node_data[2], entity, "OperatingSystem")),
             architecture |->
                 ArchitectureLabel(RawValue(node_data[2], entity, "Architecture")),
             connected |->
                 ConnectedNode(node_data[2], entity, clock,
                               ConfiguredTimespan(settings))]>>
    /\ UNCHANGED <<node_data, entity, clock, settings>>
    /\ UNCHANGED <<requestVars, pollVars, setupVars, serviceVars,
                   headerVars,
                 probeVars,
                 entryVars>>

SpecNodes == NodeInit /\ [][ReadNode]_vars

\* the descriptor of the entity's own node, and what it holds under key
OwnNode == IF entity = "n1" THEN node_data[2][1] ELSE node_data[2][2]
Own(key) == OwnNode[2][key][2]

\* the labels the mappings list, by code
StatusNames ==
    (0 :> "Offline") @@ (1 :> "Idle") @@ (2 :> "Processing")
        @@ (3 :> "Disabled") @@ (4 :> "Out of Schedule")
OperatingSystemNames ==
    (1 :> "Windows") @@ (2 :> "Linux") @@ (3 :> "Mac") @@ (4 :> "Docker")
        @@ (5 :> "FreeBSD")
ArchitectureNames ==
    (1 :> "x86") @@ (2 :> "x64") @@ (3 :> "Arm32") @@ (4 :> "Arm64")

\* the label of code in names, "Unknown" for a code names does not list
LabelIn(names, code) ==
    IF code \in DOMAIN names THEN names[code] ELSE "Unknown"

\* C18: the status, operating-system and architecture sensors of a node
\* display the label of the code of their own node when the mapping lists
\* the code (status 0..4, operating system 1..5, architecture 1..4) and
\* "Unknown" for every other integer code.
C18_LabelOrUnknown ==
    shown # <<"none">> =>
        /\ shown[2].status = LabelIn(StatusNames, Own("Status"))
        /\ shown[2].operating_system =
              LabelIn(OperatingSystemNames, Own("OperatingSystem"))
        /\ shown[2].architecture =
              LabelIn(ArchitectureNames, Own("Architecture"))

\* the node carries the code 5 under the three keys: its status and
\* architecture display "Unknown", its operating system "FreeBSD"
C18_Witness ==
    /\ shown # <<"none">>
    /\ Own("Status") = 5
    /\ shown[2].status = "Unknown"
    /\ shown[2].operating_system = "FreeBSD"
    /\ shown[2].architecture = "Unknown"

\* the seconds since the entity's node was last seen
SinceLastSeen == clock - Own("LastSeen")

\* the minutes the config entry sets, 5 when it sets none
SetMinutes ==
    IF settings = <<>> THEN 5 ELSE settings["connected_last_seen_timespan"]

CodesShowing(label) == {code \in Codes : StatusLabel(code) = label}

\* C28: the status sensor of a node displays each of Offline, Idle,
\* Processing, Disabled, Out of Schedule and Version Mismatch for exactly
\* one status code.
C28_Original ==
    shown # <<"none">> =>
        \A label \in {"Offline", "Idle", "Processing", "Disabled",
                       "Out of Schedule", "Version Mismatch"} :
            Cardinality(CodesShowing(label)) = 1

\* what the code does: the five labels before Version Mismatch are each
\* displayed for exactly one code, Version Mismatch for none
C28_VersionMismatchNeverShown ==
    shown # <<"none">> =>
        /\ \A label \in {"Offline", "Idle", "Processing", "Disabled",
                          "Out of Schedule"} :
              Cardinality(CodesShowing(label)) = 1
        /\ CodesShowing("Version Mismatch") = {}
        /\ shown[2].status # "Version Mismatch"

-----------------------------------------------------------------------------
(* SpecProbe: the probing methods of FileFlowsApiClient, each called by    *)
(* itself against every sequence of responses (api.py lines 117-133,       *)
(* 149-176, 192-221)                                                       *)

ProbingMethods ==
    {"system_info", "nodes", "statistics", "file_history", "log_entries"}

\* what the server may answer to a request of a probing method
ProbeAnswers ==
    {NotFound, Http(500, OopsText), Timeout, ClientError, Http(200, HtmlText),
     Http(200, SystemText), Http(200, DeniedText), Http(200, <<"[", "]">>)}

ProbeInit ==
    /\ probe = <<"none", 0>>
    /\ asked = <<>>
    /\ returned = NoResult

\* a probing method is called: it is about to request its first path
CallProbe ==
    /\ probe[2] = 0
    /\ \E key \in ProbingMethods : probe' = <<key, 1>>
    /\ asked' = <<>>
    /\ returned' = NoResult
    /\ UNCHANGED <<requestVars, pollVars, setupVars, serviceVars, headerVars,
                   nodeVars,
                 entryVars>>

\* one pass of the loop: the method requests its next path and the request
\* ends; the method returns, or goes on to the path after it
ProbeResponse ==
    /\ probe[2] > 0
    /\ \E resp \in ProbeAnswers :
       \E step \in {MethodStep(probe[1], probe[2], resp)} :
          /\ asked' = Append(asked, [path |-> Candidates(probe[1])[probe[2]],
                                     resp |-> resp])
          /\ probe' = <<probe[1], step.next>>
          /\ returned' = step.out
    /\ UNCHANGED <<requestVars, pollVars, setupVars, serviceVars, headerVars,
                   nodeVars,
                 entryVars>>

ProbeNext ==
    \/ CallProbe
    \/ ProbeResponse

InitProbe ==
    /\ ProbeInit
    /\ RequestParked
    /\ PollParked
    /\ SetupParked
    /\ ServiceParked
    /\ HeaderParked
    /\ NodeParked
    /\ EntryParked

SpecProbe == InitProbe /\ [][ProbeNext]_vars

-----------------------------------------------------------------------------
(* Properties of the probing methods *)

\* the request that got the response resp succeeded: a status below 400
\* with a body that is a JSON document
CandidateSucceeded(resp) ==
    /\ resp.kind = "http"
    /\ resp.status < 400
    /\ JsonLoads(resp.text).ok

\* the document a response that succeeded carries
PayloadOf(resp) == JsonLoads(resp.text).val

ProbeEnded == probe[1] # "none" /\ probe[2] = 0

\* every path of the method was requested and every request failed
EveryCandidateFailed ==
    /\ Len(asked) = Len(Candidates(probe[1]))
    /\ \A i \in 1..Len(asked) : ~CandidateSucceeded(asked[i].resp)

\* an object with an "error" member
ErrorShaped(v) == IsDict(v) /\ "error" \in DOMAIN v[2]

\* the paths are requested in the listed order, no path is requested after
\* one that succeeded, and the method never raises: it goes on while paths
\* fail and are left, and returns the payload of the first that succeeds
ProbesInOrder ==
    /\ Len(asked) <= Len(Candidates(probe[1]))
    /\ \A i \in 1..Len(asked) :
          /\ asked[i].path = Candidates(probe[1])[i]
          /\ i < Len(asked) => ~CandidateSucceeded(asked[i].resp)
    /\ returned.kind \in {"none", "return"}
    /\ ProbeEnded <=> returned.kind = "return"
    /\ ProbeEnded <=>
          /\ asked # <<>>
          /\ \/ CandidateSucceeded(Last(asked).resp)
             \/ Len(asked) = Len(Candidates(probe[1]))
    /\ (ProbeEnded /\ CandidateSucceeded(Last(asked).resp)) =>
          returned.value = PayloadOf(Last(asked).resp)

\* C20 as stated: the payload a probing method returns is error-shaped
\* exactly when every candidate failed.
C20_Original ==
    probe[1] # "none" =>
        /\ ProbesInOrder
        /\ ProbeEnded => (ErrorShaped(returned.value) <=> EveryCandidateFailed)

\* C20: each probing method requests its candidate paths in the listed
\* order, returns the payload of the first candidate that succeeds without
\* requesting any later one, and never raises; when every candidate
\* failed it returns its fallback, an object with an "error" member, and
\* when a candidate succeeded what it returns is error-shaped exactly when
\* that candidate's payload is.
C20_FirstSuccessOrFallback ==
    probe[1] # "none" =>
        /\ ProbesInOrder
        /\ (ProbeEnded /\ EveryCandidateFailed) =>
              /\ returned.value = Fallback(probe[1])
              /\ ErrorShaped(returned.value)
        /\ (ProbeEnded /\ ~EveryCandidateFailed) =>
              (ErrorShaped(returned.value)
                  <=> ErrorShaped(PayloadOf(Last(asked).resp)))

\* get_log_entries found its first path missing and its second answering:
\* it returned the second's payload
C20_Witness ==
    /\ probe = <<"log_entries", 0>>
    /\ Len(asked) = 2
    /\ asked[1].resp = NotFound
    /\ asked[2].resp = Http(200, SystemText)
    /\ returned = Return(PayloadOf(asked[2].resp))
    /\ ~ErrorShaped(returned.value)

-----------------------------------------------------------------------------
(* SpecClient: every endpoint method of FileFlowsApiClient called by       *)
(* itself (api.py lines 113-235)                                           *)

SinglePathMethods ==
    {"status", "flows", "libraries", "settings", "plugins",
     "pause_processing", "resume_processing"}

ClientMethods == SinglePathMethods \cup ProbingMethods

\* the paths a client method requests, in order
PathsOf(m) ==
    CASE m = "status" -> <<StatusPath>>
      [] m = "pause_processing" -> <<PausePath>>
      [] m = "resume_processing" -> <<ResumePath>>
      [] OTHER -> Candidates(m)

\* a method whose only request failed requests its path again
ClientStepRetrying(m, i, resp) ==
    Only({IF r.kind = "return" THEN [next |-> 0, out |-> r, last |-> r]
          ELSE [next |-> i, out |-> NoResult, last |-> r] :
             r \in {Request(PathsOf(m)[i], resp)}})

\* a client method after the response to its i-th request: get_status
\* hands on what _request returned or raised (line 115), the commands
\* turn an API error into a payload (lines 225-235), the others go on as
\* MethodStep says
ClientStep(m, i, resp) ==
    CASE m = "status" ->
            Only({[next |-> 0, out |-> r, last |-> r] :
                     r \in {Request(StatusPath, resp)}})
      [] m \in {"pause_processing", "resume_processing"} ->
            Only({[next |-> 0, out |-> Command(r), last |-> r] :
                     r \in {Request(PathsOf(m)[i], resp)}})
      [] OTHER -> MethodStep(m, i, resp)

\* a client method is called: it is about to send its first request
CallClient ==
    /\ probe[2] = 0
    /\ \E m \in ClientMethods : probe' = <<m, 1>>
    /\ asked' = <<>>
    /\ returned' = NoResult
    /\ UNCHANGED <<requestVars, pollVars, setupVars, serviceVars, headerVars,
                   nodeVars,
                 entryVars>>

\* the method sends its next request and the request ends
ClientResponse ==
    /\ probe[2] > 0
    /\ \E resp \in ProbeAnswers :
       \E step \in {ClientStep(probe[1], probe[2], resp)} :
          /\ asked' = Append(asked, [path |-> PathsOf(probe[1])[probe[2]],
                                     resp |-> resp])
          /\ probe' = <<probe[1], step.next>>
          /\ returned' = step.out
    /\ UNCHANGED <<requestVars, pollVars, setupVars, serviceVars, headerVars,
                   nodeVars,
                 entryVars>>

ClientNext ==
    \/ CallClient
    \/ ClientResponse

SpecClient == InitProbe /\ [][ClientNext]_vars

-----------------------------------------------------------------------------
(* Properties of the client methods *)

\* no path was requested twice in the call
NoPathTwice ==
    \A i, j \in 1..Len(asked) : asked[i].path = asked[j].path => i = j

\* C21: a call of a single-path method (get_status, get_flows,
\* get_libraries, get_settings, get_plugins, pause_processing,
\* resume_processing) sends exactly one request, to the method's path,
\* whether the request succeeds or fails, and no client method requests
\* a path twice within one call.
C21_NoRetry ==
    probe[1] # "none" =>
        /\ NoPathTwice
        /\ probe[1] \in SinglePathMethods =>
              /\ Len(asked) = (IF ProbeEnded THEN 1 ELSE 0)
              /\ \A i \in 1..Len(asked) : asked[i].path = PathsOf(probe[1])[1]
              /\ ProbeEnded <=> returned # NoResult

\* get_flows ended after one request that timed out
C21_Witness ==
    /\ probe = <<"flows", 0>>
    /\ Len(asked) = 1
    /\ asked[1].resp = Timeout
    /\ returned = Return(Fallback("flows"))

-----------------------------------------------------------------------------
(* SpecEntries: config entries are set up and unloaded and the services    *)
(* are called (__init__.py lines 65-208)                                   *)

Entries == {"e1", "e2"}

\* the data of a config entry: with a host, without one, with a URL whose
\* port cannot be read
EntryConfigs ==
    {[url |-> Absent, host |-> TheHost, port |-> Absent],
     [url |-> Absent, host |-> Absent, port |-> JNum(9000)],
     [url |-> ParsedUrl(OtherHost, JNum(0)), host |-> Absent, port |-> Absent],
     [url |-> ParsedUrl(TheHost, BadPort), host |-> Absent, port |-> Absent]}

\* what the server may answer to the status request of the first refresh
RefreshAnswers == {Http(200, StatusText), Timeout, Http(200, <<"7">>)}

\* lines 117-124: the first refresh of the coordinator, against a server
\* that answers the status request with resp and knows no other path
FirstRefresh(resp) ==
    LET r == Request(StatusPath, resp)
    IN UpdateData(Return(ComprehensiveData(
           [k \in {"status"} \cup OptionalKeySet |->
               IF k = "status" THEN [out |-> r, last |-> r]
               ELSE [out |-> Return(Fallback(k)), last |-> NoResult]])))

\* hass.data[DOMAIN] without the entry (line 198)
Popped(d, e) == [k \in DOMAIN d \ {e} |-> d[k]]

\* the data of the entry is stored before the connection is tested
EntrySetupStoringFirst(st, e, config, resp, resp2) ==
    LET hp == ResolveHost(config)
    IN IF IsRaised(hp.port)
       THEN [outcome |-> "ValueError", test |-> "not run",
             refresh |-> "not run", data |-> st.data,
             platforms |-> st.platforms, services |-> st.services]
       ELSE [outcome |->
                 IF ~Truthy(hp.host) THEN "return False"
                 ELSE IF TestConnection(Request(StatusPath, resp))
                            # Return(PyTrue)
                 THEN "ConfigEntryNotReady" ELSE "return True",
             test |-> "passed", refresh |-> "passed",
             data |-> (e :> [coordinator |-> e, api_client |-> e,
                             host |-> hp.host, port |-> hp.port]) @@ st.data,
             platforms |-> st.platforms \cup {e},
             services |-> [s \in Services |-> e]]

\* async_setup_entry (lines 65-188) for the entry e, given the store, the
\* platforms and the services before it (st) and the answers to the status
\* requests of the connection test and of the first refresh: how it ends
\* and what it leaves
EntrySetup(st, e, config, resp, resp2) ==
    LET hp == ResolveHost(config)
        left == [data |-> st.data, platforms |-> st.platforms,
                 services |-> st.services]
    IN IF IsRaised(hp.port)
       THEN [outcome |-> "ValueError", test |-> "not run",
             refresh |-> "not run"] @@ left
       ELSE IF ~Truthy(hp.host)
       THEN [outcome |-> "return False", test |-> "not run",
             refresh |-> "not run"] @@ left
       ELSE IF TestConnection(Request(StatusPath, resp)) # Return(PyTrue)
       THEN [outcome |-> "ConfigEntryNotReady", test |-> "failed",
             refresh |-> "not run"] @@ left
       ELSE IF ~SuccessAfter(FirstRefresh(resp2))
       THEN [outcome |-> "ConfigEntryNotReady", test |-> "passed",
             refresh |-> "failed"] @@ left
       ELSE [outcome |-> "return True", test |-> "passed",
             refresh |-> "passed",
             data |-> (e :> [coordinator |-> e, api_client |-> e,
                             host |-> hp.host, port |-> hp.port]) @@ st.data,
             platforms |-> st.platforms \cup {e},
             services |-> [s \in Services |-> e]]

\* every unload removes the services
ServicesAfterUnloadAlways(d, services) == <<>>

\* lines 200-204: the services after the entry was popped from the store
ServicesAfterUnload(d, services) ==
    IF DOMAIN d = {} THEN <<>> ELSE services

EntryInit ==
    /\ entry_state = [e \in Entries |-> "not_loaded"]
    /\ hass_data = <<>>
    /\ platforms = {}
    /\ registered = <<>>
    /\ latest = [op |-> "none", entry |-> "none", what |-> "none",
                 test |-> "none", refresh |-> "none"]

\* the host sets up an entry that is not loaded
SetupEntry ==
    /\ \E e \in Entries, config \in EntryConfigs, resp \in SetupAnswers,
          resp2 \in RefreshAnswers :
          /\ entry_state[e] = "not_loaded"
          /\ \E after \in {EntrySetup([data |-> hass_data,
                                        platforms |-> platforms,
                                        services |-> registered],
                                       e, config, resp, resp2)} :
                /\ hass_data' = after.data
                /\ platforms' = after.platforms
                /\ registered' = after.services
                /\ entry_state' =
                      IF after.outcome = "return True"
                      THEN [entry_state EXCEPT ![e] = "loaded"]
                      ELSE entry_state
                /\ latest' = [op |-> "setup", entry |-> e,
                              what |-> after.outcome, test |-> after.test,
                              refresh |-> after.refresh]
    /\ UNCHANGED <<requestVars, pollVars, setupVars, serviceVars, headerVars,
                   nodeVars, probeVars>>

\* the host unloads a loaded entry (lines 191-208); the unload of its
\* platforms succeeds or fails
UnloadEntry ==
    /\ \E e \in Entries, unload_ok \in BOOLEAN :
          /\ entry_state[e] = "loaded"
          /\ IF unload_ok
             THEN /\ hass_data' = Popped(hass_data, e)
                  /\ platforms' = platforms \ {e}
                  /\ registered' = ServicesAfterUnload(hass_data', registered)
                  /\ entry_state' = [entry_state EXCEPT ![e] = "not_loaded"]
             ELSE /\ entry_state' = [entry_state EXCEPT ![e] = "failed_unload"]
                  /\ UNCHANGED <<hass_data, platforms, registered>>
          /\ latest' = [op |-> "unload", entry |-> e,
                        what |-> IF unload_ok THEN "unloaded"
                                 ELSE "unload failed",
                        test |-> "none", refresh |-> "none"]
    /\ UNCHANGED <<requestVars, pollVars, setupVars, serviceVars, headerVars,
                   nodeVars, probeVars>>

\* a registered service is called: its handler (lines 144-174) uses the
\* api_client and the coordinator of the setup that registered it
CallRegistered ==
    /\ \E s \in DOMAIN registered :
          latest' = [op |-> "call", entry |-> registered[s], what |-> s,
                     test |-> "none", refresh |-> "none"]
    /\ UNCHANGED <<entry_state, hass_data, platforms, registered>>
    /\ UNCHANGED <<requestVars, pollVars, setupVars, serviceVars, headerVars,
                   nodeVars, probeVars>>

EntryNext ==
    \/ SetupEntry
    \/ UnloadEntry
    \/ CallRegistered

InitEntries ==
    /\ EntryInit
    /\ RequestParked
    /\ PollParked
    /\ SetupParked
    /\ ServiceParked
    /\ HeaderParked
    /\ NodeParked
    /\ ProbeParked

SpecEntries == InitEntries /\ [][EntryNext]_vars

-----------------------------------------------------------------------------
(* Properties of SpecEntries *)

\* the entries that were set up and have not been unloaded since
Loaded == {e \in Entries : entry_state[e] # "not_loaded"}

Called == latest.op = "call"

FailedSetup == latest.op = "setup" /\ latest.what # "return True"

\* C25: while at least one entry is loaded, a service call acts on the
\* api_client and the coordinator of an entry that is loaded, never on
\* those of an entry that was unloaded
C25_Original ==
    (Called /\ Loaded # {}) => latest.entry \in Loaded

\* C26: the three services are registered exactly while at least one entry
\* is loaded; a step removes them only when it is an unload that empties
\* the store; an unload whose platforms fail to unload changes neither the
\* store nor the services
C26_ServicesWhileLoaded ==
    /\ [](/\ DOMAIN registered \in {{}, Services}
          /\ DOMAIN registered = Services <=> Loaded # {})
    /\ [][(DOMAIN registered # {} /\ DOMAIN registered' = {})
              => /\ latest'.op = "unload"
                 /\ latest'.what = "unloaded"
                 /\ DOMAIN hass_data # {}
                 /\ DOMAIN hass_data' = {}]_vars
    /\ [][(latest'.op = "unload" /\ latest'.what = "unload failed")
              => /\ hass_data' = hass_data
                 /\ registered' = registered]_vars

\* an entry was unloaded while another one stays loaded, and the services
\* are still registered
C26_Witness ==
    /\ latest.op = "unload"
    /\ latest.what = "unloaded"
    /\ Loaded # {}
    /\ DOMAIN registered = Services

\* C30: a setup that fails (no host: it returns false; connection test
\* failed: not ready) stores no data, forwards no platform and registers
\* no service; a setup changes the store, the platforms or the services
\* only when its connection test and its first refresh succeeded
C30_FailedSetupLeavesNothing ==
    /\ [](FailedSetup =>
             /\ latest.entry \notin DOMAIN hass_data
             /\ latest.entry \notin platforms)
    /\ [][(latest'.op = "setup" /\ latest'.what # "return True")
              => /\ hass_data' = hass_data
                 /\ platforms' = platforms
                 /\ registered' = registered]_vars
    /\ [][(/\ latest'.op = "setup"
           /\ \/ hass_data' # hass_data
              \/ platforms' # platforms
              \/ registered' # registered)
              => /\ latest'.test = "passed"
                 /\ latest'.refresh = "passed"]_vars

\* the connection test of a setup failed while another entry is loaded
C30_Witness ==
    /\ latest.op = "setup"
    /\ latest.what = "ConfigEntryNotReady"
    /\ latest.test = "failed"
    /\ Loaded # {}
    /\ latest.entry \notin Loaded

=============================================================================
